---- MODULE Spec2Model ----
(***************************************************************************)
(* State-machine model of the crosspost gateway's core:                    *)
(*   - JobStore        (src/src/store/job-store.ts)                         *)
(*   - SchedulerService (src/src/services/scheduler-service.ts)             *)
(*   - CrosspostService.dispatch (src/src/services/crosspost-service.ts)    *)
(*                                                                         *)
(* Granularity.  The program runs on one Node.js event loop: code between  *)
(* two awaits of real I/O (writeFile, readFile, rm, a network call) runs   *)
(* without interruption, awaits of already-settled promises included.      *)
(* Every action below is one such run: it starts at a call or at the       *)
(* completion of an I/O operation and ends where the next I/O is awaited.  *)
(***************************************************************************)
EXTENDS Integers, Sequences, FiniteSets, TLC

\* ------------------------------------------------------------------ bounds
MaxTime == 1
MaxFaults == 1
MaxStored == 3

JobIds == {1, 2}
TickIds == {1, 2}
CancelIds == {1}

\* PlatformName, src/src/types.ts
Platforms == {"x", "bluesky", "mastodon"}
\* The requests schedule() is called with: whether media is attached, and
\* the targets.
Requests == {[hasMedia |-> FALSE, targets |-> {"x"}],
             [hasMedia |-> TRUE, targets |-> {"x", "mastodon"}]}

\* JobStatus, src/src/types.ts
JobStatus == {"scheduled", "running", "succeeded", "partial", "failed", "cancelled"}
Terminal == {"succeeded", "partial", "failed", "cancelled"}

VARIABLES
    now,          \* the clock (Date.now()), in ticks of MaxTime
    jobs,         \* JobStore.jobs: the in-memory Map id -> StoredJob
    file,         \* the backing file jobs.json
    media,        \* the ids whose scheduled-media/<id> directory exists
    lock,         \* JobStore.lock as a FIFO of writers; the head holds it
    isProcessing, \* SchedulerService.isProcessing
    tick,         \* per tick() invocation: position and the due-job batch
    sched,        \* per job id: position of the schedule() call creating it
    cancel,       \* per cancel() call: position, job id and result
    faults,       \* failures of the environment injected so far
    down,         \* start() failed (init() threw): the process is not up
    dispatched,   \* history: per job, calls of CrosspostService.dispatch
    published,    \* history: per job, fan-outs to the Publishers
    started,      \* history: jobs processJob was called for
    flushedRun,   \* history: jobs whose first processJob update returned
    cancelOk,     \* history: jobs a cancel() call returned a summary for
    abandoned,    \* history: jobs of a batch left unprocessed by a tick
    disp,         \* the stand-alone dispatch() call of SpecDispatch
    post,         \* the POST /v1/posts request of SpecPost
    query,        \* the last answer of list() / listDue() in SpecStore
    input,        \* the arguments of the function under study, where one is
    cache,        \* mastodonLimitsCache of crosspost-service.ts
    lookup        \* the calls of fetchMastodonInstanceLimits in progress

vars == <<now, jobs, file, media, lock, isProcessing, tick, sched, cancel,
          faults, down, dispatched, published, started, flushedRun,
          cancelOk, abandoned, disp, post, query, input, cache, lookup>>

\* ------------------------------------------------------------ store model

\* A StoredJob as schedule() builds it (scheduler-service.ts 88-96).
\* completedAt holds whether the field is set; lastError and deliveries hold
\* the empty set when absent and the value's singleton otherwise.
NewJob(runAt, hasMedia, targets) ==
    [runAt |-> runAt, status |-> "scheduled", hasMedia |-> hasMedia,
     targets |-> targets, attemptCount |-> 0,
     completedAt |-> FALSE, lastError |-> {}, deliveries |-> {}]

\* A pending call of JobStore.create / JobStore.update.
Req(owner, op, job, rec, status, deliveries, msg) ==
    [owner |-> owner, op |-> op, job |-> job, rec |-> rec, status |-> status,
     deliveries |-> deliveries, msg |-> msg, ret |-> {}, snap |-> {}]

\* processJob's first mutate (scheduler-service.ts 194-198).
MutateRunningKeepsStatus(cur) ==
    [cur EXCEPT !.attemptCount = @ + 1]
MutateRunning(cur) ==
    [cur EXCEPT !.status = "running", !.attemptCount = @ + 1]

\* cancel's mutate (scheduler-service.ts 134-138).
MutateCancelledNoTime(cur) ==
    [cur EXCEPT !.status = "cancelled"]
MutateCancelled(cur) ==
    [cur EXCEPT !.status = "cancelled", !.completedAt = TRUE]

\* processJob's mutate after dispatch returned (scheduler-service.ts 214-220).
MutateFinal(cur, status, deliveries) ==
    [cur EXCEPT !.status = status, !.completedAt = TRUE,
                !.deliveries = {deliveries}, !.lastError = {}]

\* processJob's mutate in its catch block (scheduler-service.ts 231-236).
MutateFailedNoMessage(cur, msg) ==
    [cur EXCEPT !.status = "failed", !.completedAt = TRUE]
MutateFailed(cur, msg) ==
    [cur EXCEPT !.status = "failed", !.completedAt = TRUE, !.lastError = {msg}]

Mutate(r, cur) ==
    CASE r.op = "running"   -> MutateRunning(cur)
      [] r.op = "cancelled" -> MutateCancelled(cur)
      [] r.op = "final"     -> MutateFinal(cur, r.status, r.deliveries)
      [] r.op = "failed"    -> MutateFailed(cur, r.msg)

\* The body fn of create (68) and of update (94-100) up to the flush: the map
\* after it.  update on an unknown id changes nothing.
Apply(js, r) ==
    IF r.op = "create"
    THEN [x \in DOMAIN js \cup {r.job} |->
            IF x = r.job THEN CHOOSE rec \in r.rec : TRUE ELSE js[x]]
    ELSE IF r.job \in DOMAIN js
         THEN [js EXCEPT ![r.job] = Mutate(r, js[r.job])]
         ELSE js

\* The writer at the head of the lock runs fn: the map is set, the value to
\* return is fixed, and flush() serialises the map (JSON.stringify, 113)
\* before it awaits writeFile.  S = [jobs, lock].
Acquire(S) ==
    LET r  == Head(S.lock)
        js == Apply(S.jobs, r)
        r2 == [r EXCEPT !.ret  = IF r.job \in DOMAIN js THEN {js[r.job]} ELSE {},
                        !.snap = {js}]
    IN  [jobs |-> js, lock |-> <<r2>> \o Tail(S.lock)]

\* withLock (116-131): the caller chains itself behind the previous writer;
\* with no writer pending it runs fn in the same turn of the event loop.
WithLockBarging(S, r) ==
    Acquire([S EXCEPT !.lock = <<r>> \o @])
WithLock(S, r) ==
    IF S.lock = <<>>
    THEN Acquire([S EXCEPT !.lock = <<r>>])
    ELSE [S EXCEPT !.lock = Append(@, r)]

\* The finally of withLock (128-130): the head leaves, the next writer runs.
ReleaseNever(S) == S
Release(S) ==
    LET rest == [S EXCEPT !.lock = Tail(@)]
    IN  IF rest.lock = <<>> THEN rest ELSE Acquire(rest)

\* Timestamps are stored and compared as the strings Date.toISOString()
\* returns (scheduler-service.ts 90-91, 179).  Up to the end of year 9999
\* the string starts with the four digits of the year; a later instant is
\* written with a sign and six digits ("+010000-...").  The clock of Spec
\* stays within the four-digit years; Year9999 is its last instant.
Year9999 == MaxTime
toISOString(t) == [sign |-> IF t > Year9999 THEN "+" ELSE "", digits |-> t]

\* a <= b on two such strings (job-store.ts 85) compares code units: "+"
\* sorts before every digit, and strings of the same form compare as their
\* instants do.  a.localeCompare(b) <= 0 (79, 86, 109) orders them alike.
StringLeq(a, b) ==
    IF a.sign = b.sign THEN a.digits <= b.digits ELSE a.sign = "+"

\* JobStore.listDue (83-87), as the set of ids it returns.
listDueAnyStatus(js, t) ==
    {j \in DOMAIN js : StringLeq(toISOString(js[j].runAt), toISOString(t))}
listDueAlsoRunning(js, t) ==
    {j \in DOMAIN js : /\ js[j].status \in {"scheduled", "running"}
                       /\ StringLeq(toISOString(js[j].runAt), toISOString(t))}
listDue(js, t) ==
    {j \in DOMAIN js : /\ js[j].status = "scheduled"
                       /\ StringLeq(toISOString(js[j].runAt), toISOString(t))}

\* The orders listDue can return them in: ascending runAt (86).  The sort is
\* stable, so jobs of equal runAt keep the Map's insertion order, which is the
\* order their create calls reached the store: either order can occur.
RECURSIVE DueOrdersOf(_, _)
DueOrdersOf(js, S) ==
    IF S = {} THEN {<<>>}
    ELSE UNION {{<<j>> \o rest : rest \in DueOrdersOf(js, S \ {j})} :
                  j \in {m \in S : \A k \in S :
                            StringLeq(toISOString(js[m].runAt),
                                      toISOString(js[k].runAt))}}
DueOrdersUnsorted(js, t) ==
    LET S == listDue(js, t)
    IN  {b \in [1..Cardinality(S) -> S] :
            \A i \in DOMAIN b, k \in DOMAIN b : i # k => b[i] # b[k]}
DueOrders(js, t) == DueOrdersOf(js, listDue(js, t))

\* The content init() loads from the backing file (45-55).
Loaded(f) == f.jobs

\* ------------------------------------------------------- dispatch (pure)

\* CrosspostService.dispatch 57-76 on the settled deliveries: a function from
\* the requested targets to "ok" (a TargetDeliverySuccess) or "fail".
successCount(deliveries) ==
    Cardinality({p \in DOMAIN deliveries : deliveries[p] = "ok"})
failureCount(deliveries) ==
    Cardinality(DOMAIN deliveries) - successCount(deliveries)

AggregateNoThrow(deliveries) ==
    IF failureCount(deliveries) = 0 THEN "success" ELSE "partial"
Aggregate(deliveries) ==
    IF Cardinality(DOMAIN deliveries) = 0 \/ successCount(deliveries) = 0
    THEN "throw502"
    ELSE IF failureCount(deliveries) = 0 THEN "success" ELSE "partial"

\* ------------------------------------------------- scheduler, one tick

\* The part of the state one run of a tick reads and writes.
Ctx(t) ==
    [jobs |-> jobs, lock |-> lock, tk |-> tick[t], isProcessing |-> isProcessing,
     dispatched |-> dispatched, published |-> published, started |-> started,
     flushedRun |-> flushedRun, abandoned |-> abandoned, media |-> media]

Owner(kind, id) == <<kind, id>>
IdleTick == [pc |-> "idle", batch |-> <<>>]

Store(C) == [jobs |-> C.jobs, lock |-> C.lock]
WithStore(C, S) == [C EXCEPT !.jobs = S.jobs, !.lock = S.lock]

\* tick's finally (188-190).
EndTickGuardKept(C) ==
    [C EXCEPT !.tk = IdleTick]
EndTick(C) ==
    [C EXCEPT !.tk = IdleTick, !.isProcessing = FALSE]
\* An error leaves the for loop (181-183) for tick's catch (184-187).
AbortTick(C) ==
    EndTick([C EXCEPT !.abandoned =
                @ \cup {C.tk.batch[i] : i \in 2..Len(C.tk.batch)}])

\* processJob up to the await of its first update (193-198).
ProcessJob(C, t) ==
    LET j == Head(C.tk.batch)
        r == Req(Owner("tick", t), "running", j, {}, "", <<>>, "")
    IN  WithStore([C EXCEPT !.tk.pc = "upd1", !.started = @ \cup {j}],
                  WithLock(Store(C), r))

\* processJob returned: the for loop of tick goes on (181-183).
NextJob(C, t) ==
    LET C2 == [C EXCEPT !.tk.batch = Tail(@)]
    IN  IF C2.tk.batch = <<>> THEN EndTick(C2) ELSE ProcessJob(C2, t)

\* processJob's catch block up to the await of its update (228-236).
Catch(C, t, msg) ==
    LET j == Head(C.tk.batch)
        r == Req(Owner("tick", t), "failed", j, {}, "", <<>>, msg)
    IN  WithStore([C EXCEPT !.tk.pc = "updF"], WithLock(Store(C), r))

\* dispatch after validate resolved or threw (crosspost-service.ts 25-55):
\* with a valid request every requested Publisher is started.
AfterValidate(C, t, valid) ==
    LET j == Head(C.tk.batch)
    IN  IF ~valid THEN Catch(C, t, "validation")
        ELSE [C EXCEPT !.tk.pc = "publish", !.published[j] = @ + 1]

\* The call of dispatch (207): validate awaits the capability lookup when
\* Mastodon is targeted (part_003 131-135) and is synchronous otherwise.
Dispatch(C, t, valid) ==
    LET j  == Head(C.tk.batch)
        C2 == [C EXCEPT !.dispatched[j] = @ + 1]
    IN  IF "mastodon" \in C.jobs[j].targets
        THEN [C2 EXCEPT !.tk.pc = "validate"]
        ELSE AfterValidate(C2, t, valid)

\* processJob after its first update returned (200-205): decryptJson, then
\* loadSegments, which awaits readFile when the job has media references.
AfterRunning(C, t, decryptOk, valid) ==
    LET j  == Head(C.tk.batch)
        C2 == [C EXCEPT !.flushedRun = @ \cup {j}]
    IN  IF ~decryptOk THEN Catch(C2, t, "decrypt")
        ELSE IF C.jobs[j].hasMedia THEN [C2 EXCEPT !.tk.pc = "load"]
        ELSE Dispatch(C2, t, valid)

\* dispatch after Promise.all (57-77) and processJob's use of the result
\* (212-220).
AfterPublish(C, t, deliveries) ==
    LET j       == Head(C.tk.batch)
        overall == Aggregate(deliveries)
        status  == IF overall = "success" THEN "succeeded" ELSE "partial"
        r       == Req(Owner("tick", t), "final", j, {}, status, deliveries, "")
    IN  IF overall = "throw502" THEN Catch(C, t, "delivery")
        ELSE WithStore([C EXCEPT !.tk.pc = "upd2"], WithLock(Store(C), r))

\* The tick whose store call is the head of the lock resumes after writeFile
\* settled: ok says whether the write succeeded.
TickResume(C, t, ok, decryptOk, valid) ==
    CASE C.tk.pc = "upd1" -> IF ok THEN AfterRunning(C, t, decryptOk, valid)
                             ELSE AbortTick(C)
      [] C.tk.pc = "upd2" -> IF ok THEN [C EXCEPT !.tk.pc = "cleanup"]
                             ELSE Catch(C, t, "write")
      [] C.tk.pc = "updF" -> IF ok THEN NextJob(C, t) ELSE AbortTick(C)

\* The guard of tick (172).
GuardOff == FALSE
Guard == isProcessing

\* cancel's status check (125).
CancellableAlsoRunning(status) == status \in {"scheduled", "running"}
Cancellable(status) == status = "scheduled"

\* ---------------------------------------------------------------- actions

\* A jobs file cut short by the death of the process during writeFile (113):
\* JSON.parse throws on it and init() rethrows (50, 57-60).
TornFile == [state |-> "corrupt", jobs |-> <<>>]
IdleCancel == [pc |-> "idle", job |-> 0, result |-> "none", named |-> "",
               summary |-> {}, late |-> FALSE]
\* scheduleAt of the request body (types.ts 65): absent, or a string that
\* new Date() parses to a time or does not parse (scheduler-service.ts 60-61).
NoSchedule == [present |-> FALSE, parses |-> FALSE, time |-> 0]
IdlePost == [pc |-> "idle", scheduleAt |-> NoSchedule, hasMedia |-> FALSE,
             targets |-> {}, validation |-> "none", at |-> 0, job |-> 0,
             result |-> "none", summary |-> {}]
NoQuery == [op |-> "none", at |-> 0, answer |-> <<>>]
NoInput == [op |-> "none"]
LookupIds == {1, 2}
NoUrl == [host |-> "", slashes |-> 0]
IdleLookup == [pc |-> "idle", url |-> NoUrl, now |-> 0]
IdleDisp == [pc |-> "off", targets |-> {}, invoked |-> {}, thrown |-> <<>>,
             deliveries |-> <<>>, errors |-> <<>>, result |-> "none"]

\* The state after start() on an empty data directory: init() found no file
\* and flushed the empty state (job-store.ts 56-63).
Init ==
    /\ now = 0
    /\ jobs = <<>>
    /\ file = [state |-> "ok", jobs |-> <<>>]
    /\ media = {}
    /\ lock = <<>>
    /\ isProcessing = FALSE
    /\ tick = [t \in TickIds |-> IdleTick]
    /\ sched = [j \in JobIds |-> "none"]
    /\ cancel = [c \in CancelIds |-> IdleCancel]
    /\ faults = 0
    /\ down = FALSE
    /\ dispatched = [j \in JobIds |-> 0]
    /\ published = [j \in JobIds |-> 0]
    /\ started = {}
    /\ flushedRun = {}
    /\ cancelOk = {}
    /\ abandoned = {}
    /\ disp = IdleDisp
    /\ post = IdlePost
    /\ query = NoQuery
    /\ input = NoInput
    /\ cache = <<>>
    /\ lookup = [c \in LookupIds |-> IdleLookup]

history == <<dispatched, published, started, flushedRun, cancelOk, abandoned>>

Commit(t, C) ==
    /\ jobs' = C.jobs
    /\ lock' = C.lock
    /\ tick' = [tick EXCEPT ![t] = C.tk]
    /\ isProcessing' = C.isProcessing
    /\ dispatched' = C.dispatched
    /\ published' = C.published
    /\ started' = C.started
    /\ flushedRun' = C.flushedRun
    /\ abandoned' = C.abandoned
    /\ media' = C.media

\* A call that has only its answer left to hand over does so before the
\* event loop runs anything else: the answer is computed in the same turn.
Returning ==
    \/ \E c \in DOMAIN cancel : cancel[c].pc = "ret"
    \/ \E t \in TickIds : tick[t].pc = "skipped"

\* Time passes.
Advance ==
    /\ ~Returning
    /\ ~down /\ now < MaxTime
    /\ now' = now + 1
    /\ UNCHANGED <<jobs, file, media, lock, isProcessing, tick, sched, cancel,
                   faults, down, history, disp, post, query, input, cache, lookup>>

\* schedule(runAtIso, publishRequest) with a runAt in the future (59-98): the
\* id is fresh, persistMedia writes the attached media into the job's own
\* directory and the job goes to JobStore.create.  No other call reads or
\* writes that directory before the job is in the store, so the awaits of
\* persistMedia are no points of interference and the call runs to create.
Schedule(j, runAt, hasMedia, targets) ==
    /\ ~Returning
    /\ ~down
    /\ sched[j] = "none"
    /\ \A k \in JobIds : k < j => sched[k] # "none"
    /\ runAt > now
    /\ LET rec == NewJob(runAt, hasMedia, targets)
           r   == Req(Owner("sched", j), "create", j, {rec}, "", <<>>, "")
           S   == WithLock([jobs |-> jobs, lock |-> lock], r)
       IN  /\ jobs' = S.jobs
           /\ lock' = S.lock
    /\ media' = IF hasMedia THEN media \cup {j} ELSE media
    /\ sched' = [sched EXCEPT ![j] = "create"]
    /\ UNCHANGED <<now, file, isProcessing, tick, cancel, faults, down,
                   history, disp, post, query, input, cache, lookup>>

\* What writeFile (113) leaves in the file: the serialised state when it
\* succeeded; when it failed (at open), the old content.
Written(r, ok) ==
    IF ok THEN {[state |-> "ok", jobs |-> CHOOSE x \in r.snap : TRUE]}
    ELSE {file}

WriteSettles(kind, ok) ==
    /\ ~down
    /\ lock # <<>>
    /\ Head(lock).owner[1] = kind
    /\ ok \/ faults < MaxFaults
    /\ file' \in Written(Head(lock), ok)

\* writeFile of a create call settled: schedule returns or throws (98-101).
StoreWriteSched(ok) ==
    /\ ~Returning
    /\ WriteSettles("sched", ok)
    /\ LET r == Head(lock)
           S == Release([jobs |-> jobs, lock |-> lock])
       IN  /\ jobs' = S.jobs
           /\ lock' = S.lock
           /\ sched' = [sched EXCEPT ![r.job] = "done"]
    /\ faults' = IF ok THEN faults ELSE faults + 1
    /\ UNCHANGED <<now, media, isProcessing, tick, cancel, down, history, disp, post, query, input, cache, lookup>>

\* writeFile of cancel's update settled (134-149): cancel goes on to
\* cleanupMedia, or rejects with the write's error.
StoreWriteCancel(ok) ==
    /\ ~Returning
    /\ WriteSettles("cancel", ok)
    /\ LET r == Head(lock)
           c == r.owner[2]
           S == Release([jobs |-> jobs, lock |-> lock])
       IN  /\ jobs' = S.jobs
           /\ lock' = S.lock
           /\ cancel' = [cancel EXCEPT ![c] =
                 IF ~ok THEN [@ EXCEPT !.pc = "ret", !.result = "500"]
                 ELSE IF r.ret = {} THEN [@ EXCEPT !.pc = "ret", !.result = "404"]
                 ELSE [@ EXCEPT !.pc = "rm", !.summary = r.ret]]
    /\ faults' = IF ok THEN faults ELSE faults + 1
    /\ UNCHANGED <<now, media, isProcessing, tick, sched, down, history, disp, post, query, input, cache, lookup>>

\* writeFile of one of processJob's updates settled.
StoreWriteTick(ok, decryptOk, valid) ==
    /\ ~Returning
    /\ WriteSettles("tick", ok)
    /\ LET r == Head(lock)
           t == r.owner[2]
           S == Release([jobs |-> jobs, lock |-> lock])
           C == TickResume(WithStore(Ctx(t), S), t, ok, decryptOk, valid)
           injected == (IF ok THEN 0 ELSE 1) + (IF decryptOk THEN 0 ELSE 1)
       IN  /\ ~decryptOk => (ok /\ tick[t].pc = "upd1")
           /\ faults + injected <= MaxFaults
           /\ faults' = faults + injected
           /\ Commit(t, C)
    /\ UNCHANGED <<now, sched, cancel, down, cancelOk, disp, post, query, input, cache, lookup>>

\* One firing of the interval timer, or start()'s own call (44-49): tick().
TickFire(t) ==
    /\ ~Returning
    /\ ~down
    /\ tick[t].pc = "idle"
    /\ \A u \in TickIds : u < t => tick[u].pc # "idle"
    /\ IF Guard
       THEN /\ tick' = [tick EXCEPT ![t].pc = "skipped"]
            /\ UNCHANGED <<jobs, lock, isProcessing, dispatched, published,
                           started, flushedRun, abandoned, media>>
       ELSE \E batch \in DueOrders(jobs, now) :
                 LET C == [Ctx(t) EXCEPT !.isProcessing = TRUE,
                                         !.tk = [pc |-> "due", batch |-> batch]]
                 IN  Commit(t, IF batch = <<>> THEN EndTick(C) ELSE ProcessJob(C, t))
    /\ UNCHANGED <<now, file, sched, cancel, faults, down, cancelOk, disp, post, query, input, cache, lookup>>

\* The skipped tick() call has returned (173).
TickSkipReturn(t) ==
    /\ tick[t].pc = "skipped"
    /\ tick' = [tick EXCEPT ![t] = IdleTick]
    /\ UNCHANGED <<now, jobs, file, media, lock, isProcessing, sched, cancel,
                   faults, down, history, disp, post, query, input, cache, lookup>>

\* loadSegments' readFile settled (297-311): ENOENT when the directory is gone.
TickLoad(t, valid) ==
    /\ ~Returning
    /\ ~down
    /\ tick[t].pc = "load"
    /\ LET j == Head(tick[t].batch)
       IN  Commit(t, IF j \in media THEN Dispatch(Ctx(t), t, valid)
                     ELSE Catch(Ctx(t), t, "media"))
    /\ UNCHANGED <<now, file, sched, cancel, faults, down, cancelOk, disp, post, query, input, cache, lookup>>

\* The capability lookup of validate settled (part_003 131-157).
TickValidate(t, valid) ==
    /\ ~Returning
    /\ ~down
    /\ tick[t].pc = "validate"
    /\ Commit(t, AfterValidate(Ctx(t), t, valid))
    /\ UNCHANGED <<now, file, sched, cancel, faults, down, cancelOk, disp, post, query, input, cache, lookup>>

\* Every Publisher of the job settled (Promise.all, crosspost-service.ts 55).
TickPublish(t, deliveries) ==
    /\ ~Returning
    /\ ~down
    /\ tick[t].pc = "publish"
    /\ DOMAIN deliveries = jobs[Head(tick[t].batch)].targets
    /\ Commit(t, AfterPublish(Ctx(t), t, deliveries))
    /\ UNCHANGED <<now, file, sched, cancel, faults, down, cancelOk, disp, post, query, input, cache, lookup>>

\* cleanupMedia's rm settled in processJob (227, 316-319).
TickCleanup(t, ok) ==
    /\ ~Returning
    /\ ~down
    /\ tick[t].pc = "cleanup"
    /\ ok \/ faults < MaxFaults
    /\ LET j == Head(tick[t].batch)
       IN  Commit(t, IF ok THEN NextJob([Ctx(t) EXCEPT !.media = @ \ {j}], t)
                     ELSE Catch(Ctx(t), t, "cleanup"))
    /\ faults' = IF ok THEN faults ELSE faults + 1
    /\ UNCHANGED <<now, file, sched, cancel, down, cancelOk, disp, post, query, input, cache, lookup>>

\* cancel(jobId) up to its first await of I/O (114-138).
CancelCall(c, id) ==
    /\ ~Returning
    /\ ~down
    /\ cancel[c] = IdleCancel
    /\ \A d \in CancelIds : d < c => cancel[d] # IdleCancel
    /\ LET me == [cancel[c] EXCEPT !.job = id, !.late = id \in cancelOk]
           r  == Req(Owner("cancel", c), "cancelled", id, {}, "", <<>>, "")
           S  == WithLock([jobs |-> jobs, lock |-> lock], r)
       IN  IF id \notin DOMAIN jobs
           THEN /\ cancel' = [cancel EXCEPT ![c] = [me EXCEPT !.pc = "ret", !.result = "404"]]
                /\ UNCHANGED <<jobs, lock>>
           ELSE IF ~Cancellable(jobs[id].status)
           THEN /\ cancel' = [cancel EXCEPT ![c] =
                                 [me EXCEPT !.pc = "ret", !.result = "409",
                                            !.named = jobs[id].status]]
                /\ UNCHANGED <<jobs, lock>>
           ELSE /\ cancel' = [cancel EXCEPT ![c] = [me EXCEPT !.pc = "upd"]]
                /\ jobs' = S.jobs
                /\ lock' = S.lock
    /\ UNCHANGED <<now, file, media, isProcessing, tick, sched, faults, down,
                   history, disp, post, query, input, cache, lookup>>

\* cleanupMedia's rm settled in cancel (149-150).
CancelCleanup(c, ok) ==
    /\ ~Returning
    /\ ~down
    /\ cancel[c].pc = "rm"
    /\ ok \/ faults < MaxFaults
    /\ IF ok
       THEN /\ media' = media \ {cancel[c].job}
            /\ cancel' = [cancel EXCEPT ![c].pc = "ret", ![c].result = "ok"]
            /\ cancelOk' = cancelOk \cup {cancel[c].job}
       ELSE /\ cancel' = [cancel EXCEPT ![c].pc = "ret", ![c].result = "500"]
            /\ UNCHANGED <<media, cancelOk>>
    /\ faults' = IF ok THEN faults ELSE faults + 1
    /\ UNCHANGED <<now, jobs, file, lock, isProcessing, tick, sched, down,
                   dispatched, published, started, flushedRun, abandoned,
                   disp, post, query, input, cache, lookup>>

\* The caller has its answer: the call is over.
CancelReturn(c) ==
    /\ cancel[c].pc = "ret"
    /\ cancel' = [cancel EXCEPT ![c] = IdleCancel]
    /\ UNCHANGED <<now, jobs, file, media, lock, isProcessing, tick, sched,
                   faults, down, history, disp, post, query, input, cache, lookup>>

\* The process dies and is started again: every call in flight is gone, a
\* writeFile in flight leaves the old, the new or a partial content, and
\* start() runs init() on the file (40-50, job-store.ts 45-64).
Crash ==
    /\ ~Returning
    /\ ~down
    /\ faults < MaxFaults
    /\ faults' = faults + 1
    /\ file' \in IF lock = <<>> THEN {file}
                 ELSE {file, TornFile, [state |-> "ok",
                                      jobs |-> CHOOSE x \in Head(lock).snap : TRUE]}
    /\ down' = (file'.state = "corrupt")
    /\ jobs' = Loaded(file')
    /\ lock' = <<>>
    /\ isProcessing' = FALSE
    /\ tick' = [t \in TickIds |-> IdleTick]
    /\ sched' = [j \in JobIds |->
                   IF sched[j] = "create" THEN "done" ELSE sched[j]]
    /\ cancel' = [c \in CancelIds |->
                   IdleCancel]
    /\ UNCHANGED <<now, media, history, disp, post, query, input, cache, lookup>>

Next ==
    \/ Advance
    \/ \E j \in JobIds, runAt \in 1..MaxTime, req \in Requests :
          Schedule(j, runAt, req.hasMedia, req.targets)
    \/ \E ok \in BOOLEAN : StoreWriteSched(ok)
    \/ \E ok \in BOOLEAN : StoreWriteCancel(ok)
    \/ \E ok \in BOOLEAN, decryptOk \in BOOLEAN, valid \in BOOLEAN :
          StoreWriteTick(ok, decryptOk, valid)
    \/ \E t \in TickIds : TickFire(t)
    \/ \E t \in TickIds, valid \in BOOLEAN : TickLoad(t, valid)
    \/ \E t \in TickIds, valid \in BOOLEAN : TickValidate(t, valid)
    \/ \E t \in TickIds, deliveries \in UNION {[req.targets -> {"ok", "fail"}] : req \in Requests} :
          TickPublish(t, deliveries)
    \/ \E t \in TickIds, ok \in BOOLEAN : TickCleanup(t, ok)
    \/ \E c \in CancelIds, id \in JobIds : CancelCall(c, id)
    \/ \E c \in CancelIds, ok \in BOOLEAN : CancelCleanup(c, ok)
    \/ Crash
    \/ \E c \in CancelIds : CancelReturn(c)
    \/ \E t \in TickIds : TickSkipReturn(t)

Spec == Init /\ [][Next]_vars

\* The scheduler started on a jobs file that holds one job already due, with
\* room for one more to be scheduled: a tick can then find two due jobs of
\* different runAt.
InitBatch ==
    /\ now = 0
    /\ jobs = [j \in {1} |-> NewJob(0, FALSE, {"x"})]
    /\ file = [state |-> "ok", jobs |-> [j \in {1} |-> NewJob(0, FALSE, {"x"})]]
    /\ media = {}
    /\ lock = <<>>
    /\ isProcessing = FALSE
    /\ tick = [t \in TickIds |-> IdleTick]
    /\ sched = [j \in JobIds |-> IF j = 1 THEN "done" ELSE "none"]
    /\ cancel = [c \in CancelIds |-> IdleCancel]
    /\ faults = 0
    /\ down = FALSE
    /\ dispatched = [j \in JobIds |-> 0]
    /\ published = [j \in JobIds |-> 0]
    /\ started = {}
    /\ flushedRun = {}
    /\ cancelOk = {}
    /\ abandoned = {}
    /\ disp = IdleDisp
    /\ post = IdlePost
    /\ query = NoQuery
    /\ input = NoInput
    /\ cache = <<>>
    /\ lookup = [c \in LookupIds |-> IdleLookup]

SpecBatch == InitBatch /\ [][Next]_vars

\* ------------------------------------------- dispatch, called on its own

\* What a Publisher can settle with: it resolves with a
\* TargetDeliverySuccess, or it throws; the thrown value is an Error with a
\* message, an Error whose message is empty, or a value that is no Error.
Resolved == [kind |-> "resolved", isError |-> FALSE, message |-> ""]
Thrown == {[kind |-> "thrown", isError |-> TRUE, message |-> "boom"],
           [kind |-> "thrown", isError |-> TRUE, message |-> ""],
           [kind |-> "thrown", isError |-> FALSE, message |-> "boom"]}
Settlements == {Resolved} \cup Thrown

\* extractErrorMessage (crosspost-service.ts 13-19).
extractErrorMessage(error) ==
    IF error.isError /\ error.message # "" THEN error.message
    ELSE "Unknown publishing error"

\* The Publishers dispatch has called once validate has settled (25-53): one
\* per requested target when it resolved, none when it threw.
InvokedBeforeValidation(targets, validation) == targets
Invoked(targets, validation) ==
    IF validation = "pass" THEN targets ELSE {}

\* await Promise.all(tasks) (55) resolves when every runTarget task has; a
\* runTarget task never rejects (84-92).
FirstSettled(d) == DOMAIN d.deliveries # {}
AllSettled(d) == DOMAIN d.deliveries = d.invoked

\* dispatch(publishRequest) for an immediate request (crosspost-service.ts
\* 24-55) up to its first await of I/O.  validate checks the rules of X and
\* Bluesky in the same turn (part_003 99-129) and awaits the capability
\* lookup when Mastodon is targeted (131-135); with validate resolved, one
\* runTarget task is started per requested target and each calls its
\* Publisher at once.
dispatch(targets, validation) ==
    IF validation = "pass" /\ "mastodon" \in targets
    THEN [IdleDisp EXCEPT !.pc = "validating", !.targets = targets]
    ELSE [IdleDisp EXCEPT
             !.pc = IF validation = "pass" THEN "publishing" ELSE "done",
             !.targets = targets,
             !.invoked = Invoked(targets, validation),
             !.result = IF validation = "pass" THEN "none" ELSE validation]

DispatchCall(targets, validation) ==
    /\ disp.pc = "off"
    /\ post.pc = "idle"
    /\ disp' = dispatch(targets, validation)
    /\ UNCHANGED <<now, jobs, file, media, lock, isProcessing, tick, sched,
                   cancel, faults, down, history, post, query, input, cache, lookup>>

\* The capability lookup settled: validate resolves, throws a 400 for a rule
\* of the instance, or throws the 502 of the failed lookup (part_003 131-157).
DispatchValidated(validation) ==
    /\ disp.pc = "validating"
    /\ disp' = [disp EXCEPT
                  !.pc = IF validation = "pass" THEN "publishing" ELSE "done",
                  !.invoked = Invoked(disp.targets, validation),
                  !.result = IF validation = "pass" THEN "none" ELSE validation]
    /\ UNCHANGED <<now, jobs, file, media, lock, isProcessing, tick, sched,
                   cancel, faults, down, history, post, query, input, cache, lookup>>

\* runTarget (79-93): the Publisher of one target resolved or threw, and its
\* entry of deliveries is written.
RunTargetSettles(platform, settled) ==
    /\ disp.pc = "publishing"
    /\ platform \in disp.invoked \ DOMAIN disp.deliveries
    /\ LET put(f, v) == [p \in DOMAIN f \cup {platform} |->
                           IF p = platform THEN v ELSE f[p]]
       IN  disp' = [disp EXCEPT
              !.thrown = put(@, settled),
              !.deliveries = put(@, IF settled.kind = "resolved" THEN "ok" ELSE "fail"),
              !.errors = put(@, IF settled.kind = "resolved" THEN ""
                                ELSE extractErrorMessage(settled))]
    /\ UNCHANGED <<now, jobs, file, media, lock, isProcessing, tick, sched,
                   cancel, faults, down, history, post, query, input, cache, lookup>>

\* Promise.all resolved (55): dispatch aggregates and returns or throws (57-76).
DispatchJoin ==
    /\ disp.pc = "publishing"
    /\ AllSettled(disp)
    /\ disp' = [disp EXCEPT !.pc = "done", !.result = Aggregate(disp.deliveries)]
    /\ UNCHANGED <<now, jobs, file, media, lock, isProcessing, tick, sched,
                   cancel, faults, down, history, post, query, input, cache, lookup>>

\* The caller has the outcome; the next request can come.
DispatchReturn ==
    /\ disp.pc = "done"
    /\ post.pc = "idle"
    /\ disp' = IdleDisp
    /\ UNCHANGED <<now, jobs, file, media, lock, isProcessing, tick, sched,
                   cancel, faults, down, history, post, query, input, cache, lookup>>

NextDispatch ==
    \/ \E targets \in SUBSET Platforms, validation \in {"pass", "rule400"} :
          DispatchCall(targets, validation)
    \/ \E validation \in {"pass", "rule400", "lookup502"} :
          DispatchValidated(validation)
    \/ \E platform \in Platforms, settled \in Settlements :
          RunTargetSettles(platform, settled)
    \/ DispatchJoin
    \/ DispatchReturn

SpecDispatch == Init /\ [][NextDispatch]_vars

\* ------------------------------------------------------ POST /v1/posts

\* The scheduleAt values a request is sent with: none, a string new Date()
\* does not parse, and timestamps before, at and after the clock.
ScheduleAts ==
    {NoSchedule, [present |-> TRUE, parses |-> FALSE, time |-> 0]}
    \cup {[present |-> TRUE, parses |-> TRUE, time |-> t] : t \in 0..MaxTime + 1}

\* schedule's two checks of runAt (scheduler-service.ts 60-77): getTime()
\* is NaN, or it is not after Date.now().
InvalidScheduleEqualAllowed(scheduleAt, t) ==
    ~scheduleAt.parses \/ scheduleAt.time < t
InvalidSchedule(scheduleAt, t) ==
    ~scheduleAt.parses \/ scheduleAt.time <= t

\* randomUUID() (79): an id no job has.
SomeId(js) == 1
FreshId(js) == CHOOSE j \in JobIds \ DOMAIN js : \A k \in JobIds \ DOMAIN js : j <= k

\* toJobSummary (job-store.ts 134-145).
toJobSummary(job) ==
    [runAt |-> job.runAt, status |-> job.status,
     attemptCount |-> job.attemptCount, completedAt |-> job.completedAt,
     lastError |-> job.lastError, deliveries |-> job.deliveries]

\* The handler goes past `await preflightService.validate` (server.ts 551)
\* only when validate resolved.
HandlerGoesOnRegardless(validation) == TRUE
HandlerGoesOn(validation) == validation = "pass"

\* store.create(storedJob) as schedule calls it (88-98).
PostCreate(p, id) ==
    LET rec == NewJob(p.scheduleAt.time, p.hasMedia, p.targets)
        r   == Req(Owner("post", 1), "create", id, {rec}, "", <<>>, "")
        S   == WithLock([jobs |-> jobs, lock |-> lock], r)
    IN  /\ jobs' = S.jobs
        /\ lock' = S.lock
        /\ post' = [p EXCEPT !.pc = "create", !.job = id]

\* The handler from the settlement of validate on (server.ts 551-562) and,
\* with scheduleAt in the body, schedule() up to its first await of I/O
\* (scheduler-service.ts 59-98): the two checks of runAt, the id, then
\* persistMedia's mkdir when media is attached (254-259) and create when not.
PostProceed(p, validation) ==
    LET q == [p EXCEPT !.validation = validation, !.at = now]
    IN  IF ~HandlerGoesOn(validation)
        THEN /\ post' = [q EXCEPT !.pc = "done", !.result = validation]
             /\ UNCHANGED <<jobs, lock, disp>>
        ELSE IF ~q.scheduleAt.present
        THEN /\ post' = [q EXCEPT !.pc = "dispatch"]
             /\ disp' = dispatch(q.targets, "pass")
             /\ UNCHANGED <<jobs, lock>>
        ELSE IF InvalidSchedule(q.scheduleAt, now)
        THEN /\ post' = [q EXCEPT !.pc = "done", !.result = "400 invalid-schedule"]
             /\ UNCHANGED <<jobs, lock, disp>>
        ELSE IF q.hasMedia
        THEN /\ post' = [q EXCEPT !.pc = "media", !.job = FreshId(jobs)]
             /\ UNCHANGED <<jobs, lock, disp>>
        ELSE /\ PostCreate(q, FreshId(jobs))
             /\ UNCHANGED disp

\* A request arrives (server.ts 548-551): the body is parsed and validate is
\* called.  The rules of X and Bluesky are checked in the same turn
\* (part_003 99-129); when Mastodon is targeted and they pass, validate
\* awaits the capability lookup (131-135).
PostCall(scheduleAt, req, validation) ==
    /\ post.pc = "idle"
    /\ disp.pc = "off"
    /\ scheduleAt.present => DOMAIN jobs # JobIds
    /\ LET p == [IdlePost EXCEPT !.scheduleAt = scheduleAt,
                                 !.hasMedia = req.hasMedia,
                                 !.targets = req.targets]
       IN  IF validation = "pass" /\ "mastodon" \in req.targets
           THEN /\ post' = [p EXCEPT !.pc = "validating"]
                /\ UNCHANGED <<jobs, lock, disp>>
           ELSE PostProceed(p, validation)
    /\ UNCHANGED <<now, file, media, isProcessing, tick, sched, cancel,
                   faults, down, history, query, input, cache, lookup>>

\* The capability lookup of the handler's validate settled.
PostValidated(validation) ==
    /\ post.pc = "validating"
    /\ PostProceed(post, validation)
    /\ UNCHANGED <<now, file, media, isProcessing, tick, sched, cancel,
                   faults, down, history, query, input, cache, lookup>>

\* persistMedia settled (80, 245-286): the media files are in the job's
\* directory and schedule goes on to create; or mkdir or a writeFile failed,
\* schedule throws, and the directory exists when mkdir had succeeded.
PostMedia(ok, dirMade) ==
    /\ post.pc = "media"
    /\ ok \/ faults < MaxFaults
    /\ ok => dirMade
    /\ media' = IF dirMade THEN media \cup {post.job} ELSE media
    /\ IF ok THEN PostCreate(post, post.job)
       ELSE /\ post' = [post EXCEPT !.pc = "done", !.result = "500"]
            /\ UNCHANGED <<jobs, lock>>
    /\ faults' = IF ok THEN faults ELSE faults + 1
    /\ UNCHANGED <<now, file, isProcessing, tick, sched, cancel, down,
                   history, disp, query, input, cache, lookup>>

\* writeFile of the create call settled: schedule returns the summary of the
\* job it built and the handler answers 202 (98-101, server.ts 554-559), or
\* create rejects and the request fails.
PostStoreWrite(ok) ==
    /\ post.pc = "create"
    /\ WriteSettles("post", ok)
    /\ LET r == Head(lock)
           S == Release([jobs |-> jobs, lock |-> lock])
       IN  /\ jobs' = S.jobs
           /\ lock' = S.lock
           /\ post' = IF ok
                      THEN [post EXCEPT !.pc = "done", !.result = "202",
                               !.summary = {toJobSummary(CHOOSE x \in r.rec : TRUE)}]
                      ELSE [post EXCEPT !.pc = "done", !.result = "500"]
    /\ faults' = IF ok THEN faults ELSE faults + 1
    /\ UNCHANGED <<now, media, isProcessing, tick, sched, cancel, down,
                   history, disp, query, input, cache, lookup>>

\* reply.code(result.overall === "success" ? 201 : 207) (server.ts 564)
replyCodeAlways201(overall) == "201"
replyCode(overall) == IF overall = "success" THEN "201" ELSE "207"

\* dispatch settled for a request without scheduleAt (server.ts 562-565):
\* it returned a result, or it threw and the handler throws with it.
PostDispatched ==
    /\ post.pc = "dispatch"
    /\ disp.pc = "done"
    /\ post' = [post EXCEPT !.pc = "done",
                  !.result = IF disp.result \in {"success", "partial"}
                             THEN replyCode(disp.result)
                             ELSE disp.result]
    /\ UNCHANGED <<now, jobs, file, media, lock, isProcessing, tick, sched,
                   cancel, faults, down, history, disp, query, input, cache, lookup>>

\* The answer is sent; the next request can come.
PostReturn ==
    /\ post.pc = "done"
    /\ post' = IdlePost
    /\ disp' = IdleDisp
    /\ UNCHANGED <<now, jobs, file, media, lock, isProcessing, tick, sched,
                   cancel, faults, down, history, query, input, cache, lookup>>

NextPost ==
    \/ Advance
    \/ \E scheduleAt \in ScheduleAts, req \in Requests,
          validation \in {"pass", "rule400"} :
          PostCall(scheduleAt, req, validation)
    \/ \E validation \in {"pass", "rule400", "lookup502"} :
          PostValidated(validation)
    \/ \E ok \in BOOLEAN, dirMade \in BOOLEAN : PostMedia(ok, dirMade)
    \/ \E ok \in BOOLEAN : PostStoreWrite(ok)
    \/ \E validation \in {"pass", "rule400", "lookup502"} :
          DispatchValidated(validation)
    \/ \E platform \in Platforms, settled \in Settlements :
          RunTargetSettles(platform, settled)
    \/ DispatchJoin
    \/ PostDispatched
    \/ PostReturn

SpecPost == Init /\ [][NextPost]_vars

\* ------------------------------------------- JobStore.list and listDue

\* The statuses a stored job is drawn with: scheduled, and two of the others
\* (listDue treats every status but scheduled alike).
StoredStatuses == {"scheduled", "running", "cancelled"}

\* The store contents list() and listDue() are asked about: up to MaxStored
\* jobs, numbered in the Map's insertion order.  createdAt is the clock at the
\* schedule() call (90) and never decreases along the insertion order;
\* runAt is any instant, one past year 9999 included.
StoredJobs ==
    [runAt : 0..Year9999 + 1, createdAt : 0..Year9999, status : StoredStatuses,
     hasMedia : {FALSE}, targets : {{"x"}}, attemptCount : {0},
     completedAt : {FALSE}, lastError : {{}}, deliveries : {{}}]
StoreContents ==
    UNION {{js \in [1..n -> StoredJobs] :
               \A i \in 1..n, k \in 1..n :
                  i < k => js[i].createdAt <= js[k].createdAt} : n \in 0..MaxStored}

\* Array.prototype.sort with a comparator of localeCompare on one field
\* (79, 86): a stable sort, here by insertion of each element after the last
\* one that is not greater.
RECURSIVE SortedBy(_, _)
SortedBy(key, ids) ==
    IF ids = <<>> THEN <<>>
    ELSE LET rest == SortedBy(key, SubSeq(ids, 1, Len(ids) - 1))
             x    == ids[Len(ids)]
             keep == {i \in 1..Len(rest) :
                        StringLeq(toISOString(key[rest[i]]),
                                  toISOString(key[x]))}
             at   == IF keep = {} THEN 0
                     ELSE CHOOSE i \in keep : \A k \in keep : k <= i
         IN  SubSeq(rest, 1, at) \o <<x>> \o SubSeq(rest, at + 1, Len(rest))

\* [...this.jobs.values()].filter(...): the ids in insertion order, filtered.
RECURSIVE Values(_, _)
Values(n, kept) ==
    IF n = 0 THEN <<>>
    ELSE Values(n - 1, kept) \o (IF n \in kept THEN <<n>> ELSE <<>>)

\* JobStore.list (77-81) and JobStore.listDue (83-87).
list(js) ==
    SortedBy([j \in DOMAIN js |-> js[j].createdAt],
             Values(Len(js), DOMAIN js))
listDueSorted(js, t) ==
    SortedBy([j \in DOMAIN js |-> js[j].runAt],
             Values(Len(js), listDue(js, t)))

InitStore ==
    /\ now = 0
    /\ jobs \in StoreContents
    /\ file = [state |-> "ok", jobs |-> jobs]
    /\ media = {}
    /\ lock = <<>>
    /\ isProcessing = FALSE
    /\ tick = [t \in TickIds |-> IdleTick]
    /\ sched = [j \in JobIds |-> "none"]
    /\ cancel = [c \in CancelIds |-> IdleCancel]
    /\ faults = 0
    /\ down = FALSE
    /\ dispatched = [j \in JobIds |-> 0]
    /\ published = [j \in JobIds |-> 0]
    /\ started = {}
    /\ flushedRun = {}
    /\ cancelOk = {}
    /\ abandoned = {}
    /\ disp = IdleDisp
    /\ post = IdlePost
    /\ query = NoQuery
    /\ input = NoInput
    /\ cache = <<>>
    /\ lookup = [c \in LookupIds |-> IdleLookup]

StoreListDue(t) ==
    /\ query' = [op |-> "listDue", at |-> t, answer |-> listDueSorted(jobs, t)]
    /\ UNCHANGED <<now, jobs, file, media, lock, isProcessing, tick, sched,
                   cancel, faults, down, history, disp, post, input, cache, lookup>>

StoreList ==
    /\ query' = [op |-> "list", at |-> 0, answer |-> list(jobs)]
    /\ UNCHANGED <<now, jobs, file, media, lock, isProcessing, tick, sched,
                   cancel, faults, down, history, disp, post, input, cache, lookup>>

NextStore ==
    \/ \E t \in 0..Year9999 : StoreListDue(t)
    \/ StoreList

SpecStore == InitStore /\ [][NextStore]_vars

\* ---------------------------------------------------- security/crypto.ts

\* Two different 256-bit keys, and the values of randomBytes(12) (6),
\* shortened to one byte.
Keys == {1, 2}
IVs == {<<0>>, <<1>>}
Bytes == 0..15

\* The JSON values sealed: null, true, a number, a string, the arrays of up
\* to two of them and the objects with at most the one property "a".
Scalars == {[t |-> s, items |-> <<>>] : s \in {"null", "true", "num", "str"}}
JsonValues ==
    Scalars
    \cup {[t |-> "arr", items |-> i] :
             i \in {<<>>} \cup [1..1 -> Scalars] \cup [1..2 -> Scalars]}
    \cup {[t |-> "obj", items |-> i] : i \in {<<>>} \cup [1..1 -> Scalars]}

\* JSON.stringify (8): the text as a sequence of lexical symbols.
stringify(v) ==
    CASE v.t = "arr" ->
            <<"[">> \o (IF Len(v.items) = 0 THEN <<>>
                        ELSE IF Len(v.items) = 1 THEN <<v.items[1].t>>
                        ELSE <<v.items[1].t, ",", v.items[2].t>>) \o <<"]">>
      [] v.t = "obj" ->
            <<"{">> \o (IF Len(v.items) = 0 THEN <<>>
                        ELSE <<"key", ":", v.items[1].t>>) \o <<"}">>
      [] OTHER -> <<v.t>>

\* JSON.parse (35) on such a text: the value, or a SyntaxError.
SyntaxError == [ok |-> FALSE, value |-> [t |-> "null", items |-> <<>>]]
parse(text) ==
    LET scalar(x) == x \in {"null", "true", "num", "str"}
        val(x) == [t |-> x, items |-> <<>>]
        n == Len(text)
        yes(v) == [ok |-> TRUE, value |-> v]
    IN  IF n = 1 /\ scalar(text[1]) THEN yes(val(text[1]))
        ELSE IF n >= 2 /\ text[1] = "[" /\ text[n] = "]"
        THEN IF n = 2 THEN yes([t |-> "arr", items |-> <<>>])
             ELSE IF n = 3 /\ scalar(text[2])
             THEN yes([t |-> "arr", items |-> <<val(text[2])>>])
             ELSE IF n = 5 /\ scalar(text[2]) /\ text[3] = "," /\ scalar(text[4])
             THEN yes([t |-> "arr", items |-> <<val(text[2]), val(text[4])>>])
             ELSE SyntaxError
        ELSE IF n >= 2 /\ text[1] = "{" /\ text[n] = "}"
        THEN IF n = 2 THEN yes([t |-> "obj", items |-> <<>>])
             ELSE IF n = 5 /\ text[2] = "key" /\ text[3] = ":" /\ scalar(text[4])
             THEN yes([t |-> "obj", items |-> <<val(text[4])>>])
             ELSE SyntaxError
        ELSE SyntaxError

\* Buffer.from(text, "utf8") (8) and plainText.toString("utf8") (35): one
\* byte per symbol; a byte that is no symbol's decodes to U+FFFD.
Symbols == <<"null", "true", "num", "str", "[", "]", ",", "{", "}", "key", ":">>
toUtf8(text) ==
    [i \in 1..Len(text) |-> (CHOOSE k \in 1..Len(Symbols) : Symbols[k] = text[i]) - 1]
fromUtf8(bytes) ==
    [i \in 1..Len(bytes) |-> IF bytes[i] < Len(Symbols) THEN Symbols[bytes[i] + 1]
                             ELSE "?"]

\* AES-256-GCM (7-10, 31-34).  The ciphertext is the plaintext combined
\* byte by byte with a key stream that key and iv determine; the full tag
\* has two blocks, each a number that key, iv and ciphertext together
\* determine one to one (a tag for other inputs cannot be guessed).  createDecipheriv is called without
\* authTagLength, so setAuthTag takes a tag of any valid length and final()
\* compares as many blocks as it was given.
keystream(key, iv, i) == (5 * key + 3 * iv[1] + i) % 16
cipherUpdate(plain, key, iv) ==
    [i \in 1..Len(plain) |-> (plain[i] + keystream(key, iv, i)) % 16]
decipherUpdateNoOp(encrypted, key, iv) == encrypted
decipherUpdate(encrypted, key, iv) ==
    [i \in 1..Len(encrypted) |-> (encrypted[i] + 16 - keystream(key, iv, i)) % 16]
RECURSIVE Numbered(_)
Numbered(bytes) ==
    IF bytes = <<>> THEN 0 ELSE 1 + Head(bytes) + 17 * Numbered(Tail(bytes))
getAuthTag(key, iv, encrypted) ==
    [i \in 1..2 |-> i + 3 * (key + 3 * (iv[1] + 16 * Numbered(encrypted)))]
ValidTagLengths == {1, 2}
finalOk(key, iv, encrypted, authTag) ==
    /\ Len(authTag) \in ValidTagLengths
    /\ authTag = SubSeq(getAuthTag(key, iv, encrypted), 1, Len(authTag))

\* A piece of the token string: the literal text of the version tag or of a
\* separator, or a base64url text, given by the bytes it decodes to, by the
\* bits of its last character that belong to no byte (zero as toString
\* writes them), and by whether some character is written in the standard
\* alphabet ("+", "/") instead of "-", "_" (toString never does).
Text(lit) == [lit |-> lit, bytes |-> <<>>, slack |-> 0, std |-> FALSE]
Dot == Text(".")
toBase64url(bytes) == [lit |-> "", bytes |-> bytes, slack |-> 0, std |-> FALSE]
\* Buffer.from(s, "base64url") (27-29) reads both alphabets and drops the
\* bits left over after the last whole byte.
fromBase64url(s) == s.bytes

\* [..].join(".") (12-17) and value.split(".") (21).
join(parts) ==
    [i \in 1..(2 * Len(parts) - 1) |->
        IF i % 2 = 1 THEN parts[(i + 1) \div 2] ELSE Dot]
RECURSIVE split(_)
split(token) ==
    IF \A i \in 1..Len(token) : token[i] # Dot THEN <<token>>
    ELSE LET d == CHOOSE i \in 1..Len(token) :
                     token[i] = Dot /\ \A k \in 1..(i - 1) : token[k] # Dot
         IN  <<SubSeq(token, 1, d - 1)>> \o split(SubSeq(token, d + 1, Len(token)))

\* encryptJson (5-18) with the iv randomBytes returned.
encryptJson(value, key, iv) ==
    LET plainText == toUtf8(stringify(value))
        encrypted == cipherUpdate(plainText, key, iv)
        authTag   == getAuthTag(key, iv, encrypted)
    IN  join(<<Text("v1"), toBase64url(iv), toBase64url(authTag),
               toBase64url(encrypted)>>)

\* decryptJson (20-36): what it returns, or that it threw.
Threw == [threw |-> TRUE, value |-> [t |-> "null", items |-> <<>>]]
decryptJson(token, key) ==
    LET parts == split(token)
        \* a missing component is undefined and an empty one "": both falsy
        falsy(k) == \/ k > Len(parts)
                    \/ \A i \in 1..Len(parts[k]) :
                          parts[k][i].lit = "" /\ parts[k][i].bytes = <<>>
        buffer(k) == fromBase64url(parts[k][1])
    IN  IF parts[1] # <<Text("v1")>> \/ falsy(2) \/ falsy(3) \/ falsy(4)
        THEN Threw
        ELSE IF ~finalOk(key, buffer(2), buffer(4), buffer(3)) THEN Threw
        ELSE LET parsed == parse(fromUtf8(decipherUpdate(buffer(4), key, buffer(2))))
             IN  IF parsed.ok THEN [threw |-> FALSE, value |-> parsed.value]
                 ELSE Threw

\* The tokens presented to decryptJson: a token as encryptJson made it, and
\* that token with one change: another version tag, a component removed or
\* emptied, one decoded byte of a component changed, the tag cut to a
\* shorter valid length, the unused bits of the tag's last character set, a
\* character of a component written in the standard alphabet, and a fifth
\* component appended.
Replace(token, i, piece) == [token EXCEPT ![i] = piece]
Remove(token, i) ==
    IF i = 1 THEN SubSeq(token, 3, Len(token))
    ELSE SubSeq(token, 1, i - 2) \o SubSeq(token, i + 1, Len(token))
Forged == 0
Changes ==
    {[how |-> "none", at |-> 0], [how |-> "version", at |-> 1],
     [how |-> "truncate", at |-> 5], [how |-> "slack", at |-> 5],
     [how |-> "append", at |-> 8]}
    \cup [how : {"remove"}, at : {1, 3, 5, 7}]
    \cup [how : {"empty", "alphabet"}, at : {3, 5, 7}]
    \cup [how : {"byte"}, at : {3, 7}]
    \cup [how : {"forge"}, at : {1, 2}]
Changed(token, c) ==
    CASE c.how = "none"     -> token
      [] c.how = "version"  -> Replace(token, 1, Text("v2"))
      [] c.how = "remove"   -> Remove(token, c.at)
      [] c.how = "empty"    -> Replace(token, c.at, toBase64url(<<>>))
      [] c.how = "byte"     ->
            Replace(token, c.at, [token[c.at] EXCEPT !.bytes[1] = (@ + 1) % 16])
      [] c.how = "forge"    ->
            Replace(token, 5, [token[5] EXCEPT !.bytes[c.at] = Forged])
      [] c.how = "truncate" ->
            Replace(token, 5, [token[5] EXCEPT !.bytes = SubSeq(@, 1, 1)])
      [] c.how = "slack"    -> Replace(token, 5, [token[5] EXCEPT !.slack = 1])
      [] c.how = "alphabet" -> Replace(token, c.at, [token[c.at] EXCEPT !.std = TRUE])
      [] c.how = "append"   -> token \o <<Dot, toBase64url(<<0>>)>>

InitCrypto ==
    /\ now = 0
    /\ jobs = <<>>
    /\ file = [state |-> "ok", jobs |-> <<>>]
    /\ media = {}
    /\ lock = <<>>
    /\ isProcessing = FALSE
    /\ tick = [t \in TickIds |-> IdleTick]
    /\ sched = [j \in JobIds |-> "none"]
    /\ cancel = [c \in CancelIds |-> IdleCancel]
    /\ faults = 0
    /\ down = FALSE
    /\ dispatched = [j \in JobIds |-> 0]
    /\ published = [j \in JobIds |-> 0]
    /\ started = {}
    /\ flushedRun = {}
    /\ cancelOk = {}
    /\ abandoned = {}
    /\ disp = IdleDisp
    /\ post = IdlePost
    /\ query = NoQuery
    /\ input \in [op : {"seal"}, value : JsonValues, key : Keys, iv : IVs]
    /\ cache = <<>>
    /\ lookup = [c \in LookupIds |-> IdleLookup]

\* encryptJson(value, key) is called.
Encrypt ==
    /\ query.op = "none"
    /\ query' = [op |-> "encryptJson", at |-> 0,
                 answer |-> encryptJson(input.value, input.key, input.iv)]
    /\ UNCHANGED <<now, jobs, file, media, lock, isProcessing, tick, sched,
                   cancel, faults, down, history, disp, post, input, cache, lookup>>

\* decryptJson(token, key) is called with the sealed token or a changed
\* one, and with the sealing key or the other one.
Decrypt(change, key) ==
    /\ query.op = "encryptJson"
    /\ LET token == Changed(query.answer, change)
       IN  query' = [op |-> "decryptJson", at |-> 0,
                     answer |-> [sealed |-> query.answer, token |-> token,
                                 change |-> change.how, key |-> key,
                                 out |-> decryptJson(token, key)]]
    /\ UNCHANGED <<now, jobs, file, media, lock, isProcessing, tick, sched,
                   cancel, faults, down, history, disp, post, input, cache, lookup>>

NextCrypto ==
    \/ Encrypt
    \/ \E change \in Changes, key \in Keys : Decrypt(change, key)

SpecCrypto == InitCrypto /\ [][NextCrypto]_vars

\* ------------------------------------------- the Mastodon limits cache
\* fetchMastodonInstanceLimits (crosspost-service.ts 123-216) over the
\* module-level mastodonLimitsCache (100-106).  An instance URL is a host
\* followed by some trailing slashes; the clock counts in units of which the
\* time to live is MASTODON_CACHE_TTL_MS.

MaxClock == 3
MASTODON_CACHE_TTL_MS == 2
Urls == [host : {"m"}, slashes : 0..2]
Limits == {1, 2}
LookupFailures == {"mastodon-instance-unreachable", "mastodon-instance-error",
                   "mastodon-instance-invalid"}
\* response.json() (170) is awaited outside any try: a body that is no JSON
\* rejects with a SyntaxError, which is no HttpProblem.
LookupThrows == LookupFailures \cup {"SyntaxError"}

\* instanceUrl.replace(/\/$/, "") (111-113): the pattern is anchored at the
\* end and not global, so exactly one trailing slash goes.
normalizeAllSlashes(instanceUrl) == [instanceUrl EXCEPT !.slashes = 0]
normalizeMastodonInstanceUrl(instanceUrl) ==
    [instanceUrl EXCEPT !.slashes = IF @ > 0 THEN @ - 1 ELSE 0]

\* cacheEntry && cacheEntry.expiresAt > now (130-131)
CacheHit(normalized, at) ==
    /\ normalized \in DOMAIN cache
    /\ cache[normalized].expiresAt > at

\* Map.prototype.set (210-213)
CacheSet(normalized, entry) ==
    [k \in DOMAIN cache \cup {normalized} |->
        IF k = normalized THEN entry ELSE cache[k]]

InitCache == Init

\* Time passes; a fetch in flight spans any number of these.
ClockAdvance ==
    /\ now < MaxClock
    /\ now' = now + 1
    /\ UNCHANGED <<jobs, file, media, lock, isProcessing, tick, sched, cancel,
                   faults, down, history, disp, post, query, input, cache, lookup>>

\* The outcome as the caller sees it: whether the network was used, the
\* limits returned or the type of the 502 problem thrown.
Outcome(instanceUrl, network, result, data) ==
    [op |-> "fetchMastodonInstanceLimits", at |-> now,
     answer |-> [url |-> instanceUrl, network |-> network,
                 result |-> result, data |-> data]]

\* The synchronous head of the call (126-141): normalise, read the clock,
\* look the entry up; a live entry is returned at once (132), otherwise the
\* request is built and the call awaits fetch (144).
LookupCall(c, instanceUrl) ==
    /\ lookup[c].pc = "idle"
    /\ query = NoQuery
    /\ LET normalized == normalizeMastodonInstanceUrl(instanceUrl)
       IN  IF CacheHit(normalized, now)
           THEN /\ query' = Outcome(instanceUrl, FALSE, "ok", cache[normalized].data)
                /\ UNCHANGED lookup
           ELSE /\ lookup' = [lookup EXCEPT ![c] =
                       [pc |-> "fetching", url |-> instanceUrl, now |-> now]]
                /\ UNCHANGED query
    /\ UNCHANGED <<now, jobs, file, media, lock, isProcessing, tick, sched,
                   cancel, faults, down, history, disp, post, input, cache>>

\* fetch and response.json() settled with a configuration (144-208): the
\* limits carry the time of this moment (207) and the entry expires one time
\* to live after the clock value read at 128.
LookupFetched(c, limits) ==
    /\ lookup[c].pc = "fetching"
    /\ query = NoQuery
    /\ LET normalized == normalizeMastodonInstanceUrl(lookup[c].url)
           data == [limits |-> limits, fetchedAt |-> now]
       IN  /\ cache' = CacheSet(normalized,
                          [expiresAt |-> lookup[c].now + MASTODON_CACHE_TTL_MS,
                           data |-> data])
           /\ query' = Outcome(lookup[c].url, TRUE, "ok", data)
    /\ lookup' = [lookup EXCEPT ![c] = IdleLookup]
    /\ UNCHANGED <<now, jobs, file, media, lock, isProcessing, tick, sched,
                   cancel, faults, down, history, disp, post, input>>

\* fetch rejected (147-159), the response was not ok (161-168) or the
\* document has no configuration.statuses (188-195): a 502 problem is thrown
\* and the cache is left alone; so it is when response.json() rejects (170).
LookupFailed(c, type) ==
    /\ lookup[c].pc = "fetching"
    /\ query = NoQuery
    /\ query' = Outcome(lookup[c].url, TRUE, type, 0)
    /\ lookup' = [lookup EXCEPT ![c] = IdleLookup]
    /\ UNCHANGED <<now, jobs, file, media, lock, isProcessing, tick, sched,
                   cancel, faults, down, history, disp, post, input, cache>>

\* The caller took the outcome.
LookupReturn ==
    /\ query.op = "fetchMastodonInstanceLimits"
    /\ query' = NoQuery
    /\ UNCHANGED <<now, jobs, file, media, lock, isProcessing, tick, sched,
                   cancel, faults, down, history, disp, post, input, cache, lookup>>

NextCache ==
    \/ ClockAdvance
    \/ \E c \in LookupIds, instanceUrl \in Urls : LookupCall(c, instanceUrl)
    \/ \E c \in LookupIds, limits \in Limits : LookupFetched(c, limits)
    \/ \E c \in LookupIds, type \in LookupThrows : LookupFailed(c, type)
    \/ LookupReturn

SpecCache == InitCache /\ [][NextCache]_vars

\* ------------------------------------------------ preflight validation
\* PreflightService.validate (part_003 97-158) as a function of the request
\* and of what the capability lookup answers.  A text is a sequence of runs
\* of one character; "a" is a letter, " " white space and "G" a character
\* outside the Basic Multilingual Plane (two UTF-16 units, one code point).

X_MAX_CHARACTERS == 280
BLUESKY_MAX_CHARACTERS == 300

Run(ch, n) == [ch |-> ch, n |-> n]
Texts ==
    { <<>>, <<Run(" ", 2)>>, <<Run("a", 1)>>,
      <<Run("a", 280)>>, <<Run("a", 281)>>,
      <<Run("G", 140)>>, <<Run("G", 280)>>, <<Run("a", 279), Run("G", 1)>>,
      <<Run("a", 280), Run("G", 1)>>, <<Run("a", 300)>>, <<Run("G", 301)>>,
      <<Run("a", 500)>>, <<Run("a", 501)>> }

RECURSIVE Total(_, _)
Total(text, weight) ==
    IF text = <<>> THEN 0
    ELSE weight[Head(text).ch] * Head(text).n + Total(Tail(text), weight)

\* [...text].length (crosspost-service.ts 218-220): the string iterator
\* yields code points.
countUtf16Units(text) == Total(text, [ch \in {"a", " ", "G"} |-> IF ch = "G" THEN 2 ELSE 1])
countCodePoints(text) == Total(text, [ch \in {"a", " ", "G"} |-> 1])

\* text.trim().length (part_003 21)
trimmedLength(text) ==
    IF \A i \in 1..Len(text) : text[i].ch = " " THEN 0 ELSE countUtf16Units(text)

\* A MIME type is its two parts and whether it is written in upper case.
Mime(major, minor, upper) == [major |-> major, minor |-> minor, upper |-> upper]
Mimes == { Mime("image", "png", FALSE), Mime("image", "png", TRUE),
           Mime("video", "mp4", FALSE), Mime("video", "mp4", TRUE),
           Mime("video", "webm", FALSE), Mime("application", "pdf", FALSE) }
toLowerCase(mimeType) == [mimeType EXCEPT !.upper = FALSE]
startsWith(mimeType, major) == ~mimeType.upper /\ mimeType.major = major

\* classifyMediaType (crosspost-service.ts 222-234)
classifyMediaTypeCaseSensitive(mimeType) ==
    IF startsWith(mimeType, "image") THEN "image"
    ELSE IF startsWith(mimeType, "video") THEN "video"
    ELSE "other"
classifyMediaType(mimeType) ==
    LET normalized == toLowerCase(mimeType)
    IN  IF startsWith(normalized, "image") THEN "image"
        ELSE IF startsWith(normalized, "video") THEN "video"
        ELSE "other"

\* Array.prototype.filter
RECURSIVE filter(_, _)
filter(items, kind) ==
    IF items = <<>> THEN <<>>
    ELSE IF classifyMediaType(Head(items)) = kind
         THEN <<Head(items)>> \o filter(Tail(items), kind)
         ELSE filter(Tail(items), kind)

\* An HttpProblem: its status, the last part of its type and what its
\* detail cites (a segment number, a count, a limit; 0 where it cites none).
Problem(status, type, segment, count, limit) ==
    [status |-> status, type |-> type, segment |-> segment,
     count |-> count, limit |-> limit]
NoProblem == Problem(0, "none", 0, 0, 0)

\* The first problem of a loop over the segments, given the problem each
\* turn would throw.
FirstProblem(problems) ==
    IF \E i \in DOMAIN problems : problems[i] # NoProblem
    THEN problems[CHOOSE i \in DOMAIN problems :
                     /\ problems[i] # NoProblem
                     /\ \A h \in 1..(i - 1) : problems[h] = NoProblem]
    ELSE NoProblem

\* assertNonEmptySegments (part_003 11-31)
EmptyText(segment, index) ==
    IF trimmedLength(segment.text) = 0
    THEN Problem(400, "validation-error", index, 0, 0)
    ELSE NoProblem
assertNonEmptySegments(segments) ==
    IF Len(segments) = 0 THEN Problem(400, "validation-error", 0, 0, 0)
    ELSE FirstProblem([i \in DOMAIN segments |-> EmptyText(segments[i], i)])

\* One turn of the loop of validateBlueskyMedia (part_003 34-93)
BlueskyMedia(segment, index) ==
    LET imageMedia == filter(segment.media, "image")
        videoMedia == filter(segment.media, "video")
        unsupportedMedia == filter(segment.media, "other")
        invalid(count, limit) ==
            Problem(400, "bluesky-media-invalid", index, count, limit)
    IN  IF Len(unsupportedMedia) > 0 THEN invalid(0, 0)
        ELSE IF Len(imageMedia) > 0 /\ Len(videoMedia) > 0
             THEN Problem(400, "bluesky-media-invalid", 0, 0, 0)
        ELSE IF Len(imageMedia) > 4 THEN invalid(Len(imageMedia), 4)
        ELSE IF Len(videoMedia) > 1 THEN invalid(Len(videoMedia), 1)
        ELSE IF /\ Len(videoMedia) = 1
                /\ toLowerCase(videoMedia[1]) # Mime("video", "mp4", FALSE)
             THEN Problem(400, "bluesky-media-invalid", 0, 0, 0)
        ELSE NoProblem
validateBlueskyMedia(segments) ==
    FirstProblem([i \in DOMAIN segments |-> BlueskyMedia(segments[i], i)])

\* The loop of the X rule (part_003 101-113); the detail spells the limit
\* out as 280.
XLength(segment, index) ==
    LET length == countCodePoints(segment.text)
    IN  IF length > X_MAX_CHARACTERS
        THEN Problem(400, "x-length-exceeded", index, length, 280)
        ELSE NoProblem

\* The loop of the Bluesky length rule (part_003 116-127)
BlueskyLength(segment, index) ==
    LET length == countCodePoints(segment.text)
    IN  IF length > BLUESKY_MAX_CHARACTERS
        THEN Problem(400, "bluesky-length-exceeded", index, length, 300)
        ELSE NoProblem

\* validate up to its only await (part_003 98-135): the problem thrown, or
\* NoProblem when it returns or goes on to the capability lookup.
validateBeforeLookup(publishRequest) ==
    LET segments == publishRequest.segments
        targets == publishRequest.targets
        x == IF "x" \in targets
             THEN FirstProblem([i \in DOMAIN segments |-> XLength(segments[i], i)])
             ELSE NoProblem
        length == IF "bluesky" \in targets
                  THEN FirstProblem([i \in DOMAIN segments |->
                                        BlueskyLength(segments[i], i)])
                  ELSE NoProblem
        blueskyMedia == IF "bluesky" \in targets
                        THEN validateBlueskyMedia(segments) ELSE NoProblem
    IN  IF assertNonEmptySegments(segments) # NoProblem
        THEN assertNonEmptySegments(segments)
        ELSE IF x # NoProblem THEN x
        ELSE IF length # NoProblem THEN length
        ELSE blueskyMedia

\* What the capability lookup can answer: limits, one of its 502 problems, or
\* the SyntaxError of a body that is no JSON.
InstanceLimits == [maxCharacters : {500, 280}, maxMediaAttachments : {4, 1}]
LookupProblemAsRuleViolation(type) == Problem(400, type, 0, 0, 0)
LookupProblem(type) ==
    IF type \in LookupFailures THEN Problem(502, type, 0, 0, 0)
    ELSE Problem(0, type, 0, 0, 0)

\* The loop after the lookup (part_003 137-156)
MastodonSegment(segment, index, limits) ==
    LET length == countCodePoints(segment.text)
    IN  IF length > limits.maxCharacters
        THEN Problem(400, "mastodon-length-exceeded", index, length,
                     limits.maxCharacters)
        ELSE IF Len(segment.media) > limits.maxMediaAttachments
        THEN Problem(400, "mastodon-media-exceeded", index, Len(segment.media),
                     limits.maxMediaAttachments)
        ELSE NoProblem
validateAfterLookup(publishRequest, limits) ==
    FirstProblem([i \in DOMAIN publishRequest.segments |->
                     MastodonSegment(publishRequest.segments[i], i, limits)])

\* The requests validate is applied to: the media lists of up to five
\* images and videos and of up to two items of any type, the texts around
\* each limit, one or two segments, every set of targets.
Png == Mime("image", "png", FALSE)
Mp4 == Mime("video", "mp4", FALSE)
UpTo(S, n) == UNION {[1..k -> S] : k \in 0..n}
MediaLists == UpTo({Png, Mp4}, 5) \cup UpTo(Mimes, 2)
Segment(text, items) == [text |-> text, media |-> items]
SegmentLists ==
    {<<>>}
    \cup {<<Segment(t, m)>> : t \in Texts, m \in MediaLists}
    \cup {<<Segment(<<Run("a", 1)>>, <<>>), Segment(<<Run("a", 1)>>, m)>> :
              m \in MediaLists}
    \cup {<<Segment(t1, m1), Segment(t2, m2)>> :
              t1 \in Texts, t2 \in Texts,
              m1 \in UpTo({Mime("application", "pdf", FALSE)}, 1),
              m2 \in UpTo({Mime("application", "pdf", FALSE)}, 1)}
PublishRequests == [op : {"validate"}, targets : SUBSET Platforms,
                    segments : SegmentLists]

InitValidate ==
    /\ now = 0
    /\ jobs = <<>>
    /\ file = [state |-> "ok", jobs |-> <<>>]
    /\ media = {}
    /\ lock = <<>>
    /\ isProcessing = FALSE
    /\ tick = [t \in TickIds |-> IdleTick]
    /\ sched = [j \in JobIds |-> "none"]
    /\ cancel = [c \in CancelIds |-> IdleCancel]
    /\ faults = 0
    /\ down = FALSE
    /\ dispatched = [j \in JobIds |-> 0]
    /\ published = [j \in JobIds |-> 0]
    /\ started = {}
    /\ flushedRun = {}
    /\ cancelOk = {}
    /\ abandoned = {}
    /\ disp = IdleDisp
    /\ post = IdlePost
    /\ query = NoQuery
    /\ input \in PublishRequests
    /\ cache = <<>>
    /\ lookup = [c \in LookupIds |-> IdleLookup]

NoLimits == [maxCharacters |-> 0, maxMediaAttachments |-> 0]
Validated(threw, problem, lookedUp, limits) ==
    [op |-> "validate", at |-> 0,
     answer |-> [threw |-> threw, problem |-> problem, lookup |-> lookedUp,
                 limits |-> limits]]

\* validate is called and runs to its return, its throw or its await of the
\* capability lookup (part_003 98-135).
ValidateCall ==
    /\ query = NoQuery
    /\ LET problem == validateBeforeLookup(input)
       IN  IF problem # NoProblem
           THEN query' = Validated(TRUE, problem, "none", NoLimits)
           ELSE IF "mastodon" \in input.targets
           THEN query' = [op |-> "validate.await", at |-> 0, answer |-> <<>>]
           ELSE query' = Validated(FALSE, NoProblem, "none", NoLimits)
    /\ UNCHANGED <<now, jobs, file, media, lock, isProcessing, tick, sched,
                   cancel, faults, down, history, disp, post, input, cache, lookup>>

\* The lookup answered limits, cached or fetched: the Mastodon rules run
\* (part_003 137-156).
ValidateLimits(limits) ==
    /\ query.op = "validate.await"
    /\ LET problem == validateAfterLookup(input, limits)
       IN  query' = Validated(problem # NoProblem, problem, "limits", limits)
    /\ UNCHANGED <<now, jobs, file, media, lock, isProcessing, tick, sched,
                   cancel, faults, down, history, disp, post, input, cache, lookup>>

\* The lookup threw: nothing in validate catches it (part_003 132-135).
ValidateLookupThrew(type) ==
    /\ query.op = "validate.await"
    /\ query' = Validated(TRUE, LookupProblem(type), type, NoLimits)
    /\ UNCHANGED <<now, jobs, file, media, lock, isProcessing, tick, sched,
                   cancel, faults, down, history, disp, post, input, cache, lookup>>

NextValidate ==
    \/ ValidateCall
    \/ \E limits \in InstanceLimits : ValidateLimits(limits)
    \/ \E type \in LookupThrows : ValidateLookupThrew(type)

SpecValidate == InitValidate /\ [][NextValidate]_vars

\* ------------------------------------ what a job carries to its due time
\* schedule's persistMedia and payload (scheduler-service.ts 79-96, 245-286)
\* and processJob's decryptJson and loadSegments (200-211, 288-314).  The
\* targets are one of two values, a text is "a" or "b", a buffer a number.

Undefined == "undefined"
Item(buffer, fileName, mimeType, altText) ==
    [buffer |-> buffer, fileName |-> fileName, mimeType |-> mimeType,
     altText |-> altText]
IncomingMedia ==
    { Item(1, "a.png", "image/png", Undefined),
      Item(2, "a.png", "image/png", "alt"),
      Item(1, "", "video/mp4", "alt"),
      Item(2, "my photo.png", "video/mp4", Undefined) }
IncomingSegmentLists ==
    LET one == [text : {"a", "b"}, media : UpTo(IncomingMedia, 2)]
    IN  {<<x>> : x \in one}
        \cup {<<x, y>> : x \in one,
                         y \in [text : {"b"}, media : UpTo(IncomingMedia, 1)]}
ScheduledRequests ==
    [targets : {"tx", "txm"}, segments : IncomingSegmentLists,
     clientRequestId : {Undefined, "id"}]

\* JSON.stringify of the payload (crypto.ts 8): the text is given by the
\* values it holds in the order they are written (targets, the text of each
\* segment, clientRequestId); the property names and the punctuation, the
\* same in every such text, are left out.  A property whose value is
\* undefined is not written.
stringifyPayload(payload) ==
    <<payload.targets>>
    \o [i \in 1..Len(payload.segments) |-> payload.segments[i].text]
    \o (IF payload.clientRequestId = Undefined THEN <<>>
        ELSE <<payload.clientRequestId>>)

\* JSON.parse of such a text (crypto.ts 35); a property that is not there
\* reads as undefined.
SegmentTexts == {"a", "b"}
parsePayload(text) ==
    LET count == Cardinality({i \in 2..Len(text) : text[i] \in SegmentTexts})
    IN  [targets |-> text[1],
         segments |-> [i \in 1..count |-> [text |-> text[1 + i]]],
         clientRequestId |-> IF Len(text) > 1 + count THEN text[Len(text)]
                             ELSE Undefined]

\* Buffer.from(text, "utf8") and toString("utf8") on these texts.
PayloadSymbols == <<"tx", "txm", "a", "b", "id">>
payloadToUtf8(text) ==
    [i \in 1..Len(text) |->
        (CHOOSE k \in 1..Len(PayloadSymbols) : PayloadSymbols[k] = text[i]) - 1]
payloadFromUtf8(bytes) ==
    [i \in 1..Len(bytes) |->
        IF bytes[i] < Len(PayloadSymbols) THEN PayloadSymbols[bytes[i] + 1] ELSE "?"]

\* encryptJson (crypto.ts 5-18) and decryptJson (20-36) on a payload.
encryptPayload(payload, key, iv) ==
    LET plainText == payloadToUtf8(stringifyPayload(payload))
        encrypted == cipherUpdate(plainText, key, iv)
        authTag   == getAuthTag(key, iv, encrypted)
    IN  join(<<Text("v1"), toBase64url(iv), toBase64url(authTag),
               toBase64url(encrypted)>>)
decryptPayload(token, key) ==
    LET parts == split(token)
        buffer(k) == fromBase64url(parts[k][1])
    IN  IF Len(parts) < 4 \/ parts[1] # <<Text("v1")>> THEN [threw |-> TRUE]
        ELSE IF ~finalOk(key, buffer(2), buffer(4), buffer(3)) THEN [threw |-> TRUE]
        ELSE [threw |-> FALSE,
              value |-> parsePayload(payloadFromUtf8(
                            decipherUpdate(buffer(4), key, buffer(2))))]

\* The media items of all segments in the order of persistMedia's two loops
\* (262-263), each with its segmentIndex (counted from 0).
RECURSIVE Flatten(_, _)
Flatten(segments, segmentIndex) ==
    IF segmentIndex = Len(segments) THEN <<>>
    ELSE [i \in 1..Len(segments[segmentIndex + 1].media) |->
             [segmentIndex |-> segmentIndex,
              item |-> segments[segmentIndex + 1].media[i]]]
         \o Flatten(segments, segmentIndex + 1)

\* item.fileName.replace(/[^a-zA-Z0-9._-]+/g, "_") || `media-${fileCounter}`
\* (266-267); "media-" stands for the name with the counter.
safeFileName(fileName) ==
    IF fileName = "" THEN "media-"
    ELSE IF fileName = "my photo.png" THEN "my_photo.png"
    ELSE fileName

\* join(folder, `${fileCounter}-${safeFileName}`) (268-269)
PathWithoutCounter(jobId, fileCounter, fileName) ==
    [folder |-> jobId, counter |-> 0, name |-> safeFileName(fileName)]
Path(jobId, fileCounter, fileName) ==
    [folder |-> jobId, counter |-> fileCounter, name |-> safeFileName(fileName)]

\* persistMedia (245-286): the references it returns and the files it has
\* written; a later writeFile to a path replaces what an earlier one wrote.
persistMedia(jobId, segments) ==
    LET all == Flatten(segments, 0)
        path(n) == Path(jobId, n, all[n].item.fileName)
        last(q) == CHOOSE n \in 1..Len(all) :
                      path(n) = q /\ \A m \in (n + 1)..Len(all) : path(m) # q
    IN  [references |->
            [n \in 1..Len(all) |->
                [path |-> path(n), segmentIndex |-> all[n].segmentIndex,
                 fileName |-> <<n, safeFileName(all[n].item.fileName)>>,
                 mimeType |-> all[n].item.mimeType,
                 altText |-> all[n].item.altText]],
         files |-> [q \in {path(n) : n \in 1..Len(all)} |->
                       all[last(q)].item.buffer]]

\* A media reference through the jobs file (job-store.ts 106-114, 45-55):
\* JSON.stringify leaves out altText when it is undefined, and the property
\* that is not there reads as undefined after JSON.parse.
stringifyReference(ref) ==
    [k \in {"path", "segmentIndex", "fileName", "mimeType"}
           \cup (IF ref.altText = Undefined THEN {} ELSE {"altText"}) |->
        CASE k = "path" -> <<ref.path>>
          [] k = "segmentIndex" -> <<ref.segmentIndex>>
          [] k = "fileName" -> <<ref.fileName>>
          [] k = "mimeType" -> <<ref.mimeType>>
          [] k = "altText" -> <<ref.altText>>]
parseReference(json) ==
    [path |-> json["path"][1], segmentIndex |-> json["segmentIndex"][1],
     fileName |-> json["fileName"][1], mimeType |-> json["mimeType"][1],
     altText |-> IF "altText" \in DOMAIN json THEN json["altText"][1]
                 ELSE Undefined]

\* loadSegments (288-314): every reference's file is read (298), then the
\* reference is dropped when loaded[item.segmentIndex] is undefined (301-303)
\* and its item pushed to that segment otherwise.  readFile of a path that
\* is not there rejects with ENOENT.
RECURSIVE LoadInto(_, _, _)
LoadInto(loaded, refs, files) ==
    IF refs = <<>> THEN [threw |-> FALSE, segments |-> loaded]
    ELSE LET item == Head(refs)
         IN  IF item.path \notin DOMAIN files
             THEN [threw |-> TRUE, segments |-> <<>>]
             ELSE IF item.segmentIndex + 1 \notin DOMAIN loaded
             THEN LoadInto(loaded, Tail(refs), files)
             ELSE LoadInto(
                     [loaded EXCEPT ![item.segmentIndex + 1].media =
                         Append(@, Item(files[item.path], item.fileName,
                                        item.mimeType, item.altText))],
                     Tail(refs), files)
loadSegments(persistedSegments, refs, files) ==
    LoadInto([i \in 1..Len(persistedSegments) |->
                 [text |-> persistedSegments[i].text, media |-> <<>>]],
             refs, files)

\* A reference the jobs file can hold that persistMedia never wrote: init()
\* takes whatever parses (job-store.ts 50-55).  Its segmentIndex is outside
\* the segments, its file is there or is not, and it stands before or after
\* the job's own references.
StrayPath == [folder |-> 1, counter |-> 0, name |-> "stray"]
StrayReferences == [segmentIndex : {-1, 2}, present : BOOLEAN, front : BOOLEAN]
StrayReference(c) ==
    [path |-> StrayPath, segmentIndex |-> c.segmentIndex,
     fileName |-> <<0, "stray">>, mimeType |-> "image/png", altText |-> Undefined]

InitRehydrate ==
    /\ now = 0
    /\ jobs = <<>>
    /\ file = [state |-> "ok", jobs |-> <<>>]
    /\ media = {}
    /\ lock = <<>>
    /\ isProcessing = FALSE
    /\ tick = [t \in TickIds |-> IdleTick]
    /\ sched = [j \in JobIds |-> "none"]
    /\ cancel = [c \in CancelIds |-> IdleCancel]
    /\ faults = 0
    /\ down = FALSE
    /\ dispatched = [j \in JobIds |-> 0]
    /\ published = [j \in JobIds |-> 0]
    /\ started = {}
    /\ flushedRun = {}
    /\ cancelOk = {}
    /\ abandoned = {}
    /\ disp = IdleDisp
    /\ post = IdlePost
    /\ query = NoQuery
    /\ input \in [op : {"schedule"}, request : ScheduledRequests,
                  key : Keys, iv : {<<0>>}]
    /\ cache = <<>>
    /\ lookup = [c \in LookupIds |-> IdleLookup]

\* schedule (79-96): the media are persisted, the payload of targets, texts
\* and clientRequestId is sealed, and the job holds both.
RehydrateSchedule ==
    /\ query = NoQuery
    /\ LET R == input.request
           persisted == persistMedia(1, R.segments)
           payloadToEncrypt ==
               [targets |-> R.targets,
                segments |-> [i \in 1..Len(R.segments) |->
                                 [text |-> R.segments[i].text]],
                clientRequestId |-> R.clientRequestId]
       IN  query' = [op |-> "scheduled", at |-> 0,
                     answer |-> [files |-> persisted.files,
                                 encryptedPayload |->
                                     encryptPayload(payloadToEncrypt, input.key,
                                                    input.iv),
                                 media |-> persisted.references,
                                 restarted |-> FALSE, stray |-> FALSE]]
    /\ UNCHANGED <<now, jobs, file, media, lock, isProcessing, tick, sched,
                   cancel, faults, down, history, disp, post, input, cache, lookup>>

\* The process is started again before the job is due: the job is the one
\* init() parses from the jobs file.
RehydrateRestart ==
    /\ query.op = "scheduled"
    /\ ~query.answer.restarted
    /\ query' = [query EXCEPT
                    !.answer.restarted = TRUE,
                    !.answer.media =
                        [n \in 1..Len(@) |-> parseReference(stringifyReference(@[n]))]]
    /\ UNCHANGED <<now, jobs, file, media, lock, isProcessing, tick, sched,
                   cancel, faults, down, history, disp, post, input, cache, lookup>>

\* The jobs file init() parsed held one reference more.
RehydrateStray(c) ==
    /\ query.op = "scheduled"
    /\ query.answer.restarted /\ ~query.answer.stray
    /\ query' = [query EXCEPT
                    !.answer.stray = TRUE,
                    !.answer.media = IF c.front THEN <<StrayReference(c)>> \o @
                                     ELSE @ \o <<StrayReference(c)>>,
                    !.answer.files =
                        IF c.present
                        THEN [q \in DOMAIN @ \cup {StrayPath} |->
                                 IF q = StrayPath THEN 3 ELSE @[q]]
                        ELSE @]
    /\ UNCHANGED <<now, jobs, file, media, lock, isProcessing, tick, sched,
                   cancel, faults, down, history, disp, post, input, cache, lookup>>

\* processJob from decryptJson to the call of dispatch (201-211): what the
\* Dispatcher is called with, or that processJob went to its catch block.
RehydrateProcess ==
    /\ query.op = "scheduled"
    /\ LET a == query.answer
           payload == decryptPayload(a.encryptedPayload, input.key)
           segments == loadSegments(payload.value.segments, a.media, a.files)
           failed == payload.threw \/ segments.threw
       IN  query' = [op |-> "processed", at |-> 0,
                     answer |-> [files |-> a.files, media |-> a.media,
                                 restarted |-> a.restarted, stray |-> a.stray,
                                 threw |-> failed,
                                 request |->
                                     IF failed THEN <<>>
                                     ELSE [targets |-> payload.value.targets,
                                           segments |-> segments.segments,
                                           clientRequestId |->
                                               payload.value.clientRequestId]]]
    /\ UNCHANGED <<now, jobs, file, media, lock, isProcessing, tick, sched,
                   cancel, faults, down, history, disp, post, input, cache, lookup>>

NextRehydrate ==
    \/ RehydrateSchedule
    \/ RehydrateRestart
    \/ \E c \in StrayReferences : RehydrateStray(c)
    \/ RehydrateProcess

SpecRehydrate == InitRehydrate /\ [][NextRehydrate]_vars

\* ------------------------------------------------- JobStore.init (45-64)

\* What init() can find at filePath: no file, a file readFile cannot read
\* (EACCES, EISDIR), a text JSON.parse rejects, the text "null" (parsed.jobs
\* throws a TypeError), a JSON object without a jobs array, and the file
\* flush() wrote for some jobs.
BrokenStates == {"unreadable", "corrupt", "notobject"}
BackingFiles ==
    {[state |-> st, jobs |-> <<>>] : st \in BrokenStates \cup {"absent", "nojobs"}}
    \cup {[state |-> "ok", jobs |-> js] : js \in StoreContents}

\* The try block (48-55): the jobs it put into the Map, or the code property
\* of the error it threw (a SyntaxError and a TypeError have none).
readAndParse(f) ==
    CASE f.state = "absent"     -> [threw |-> TRUE, code |-> "ENOENT", jobs |-> <<>>]
      [] f.state = "unreadable" -> [threw |-> TRUE, code |-> "EACCES", jobs |-> <<>>]
      [] f.state = "corrupt"    -> [threw |-> TRUE, code |-> Undefined, jobs |-> <<>>]
      [] f.state = "notobject"  -> [threw |-> TRUE, code |-> Undefined, jobs |-> <<>>]
      [] f.state = "nojobs"     -> [threw |-> FALSE, code |-> Undefined, jobs |-> <<>>]
      [] OTHER                  -> [threw |-> FALSE, code |-> Undefined, jobs |-> f.jobs]

\* if (code !== "ENOENT") throw error (57-60)
RethrownNever(code) == FALSE
Rethrown(code) == code # "ENOENT"

InitInit ==
    /\ now = 0
    /\ jobs = <<>>
    /\ file \in BackingFiles
    /\ media = {}
    /\ lock = <<>>
    /\ isProcessing = FALSE
    /\ tick = [t \in TickIds |-> IdleTick]
    /\ sched = [j \in JobIds |-> "none"]
    /\ cancel = [c \in CancelIds |-> IdleCancel]
    /\ faults = 0
    /\ down = FALSE
    /\ dispatched = [j \in JobIds |-> 0]
    /\ published = [j \in JobIds |-> 0]
    /\ started = {}
    /\ flushedRun = {}
    /\ cancelOk = {}
    /\ abandoned = {}
    /\ disp = IdleDisp
    /\ post = IdlePost
    /\ query = NoQuery
    /\ input = [op |-> "init", file |-> file]
    /\ cache = <<>>
    /\ lookup = [c \in LookupIds |-> IdleLookup]

\* init() up to its return, its throw or the await of flush() (45-63).
StoreInit ==
    /\ query = NoQuery
    /\ LET r == readAndParse(file)
       IN  /\ jobs' = r.jobs
           /\ query' = [op |-> "init", at |-> 0,
                        answer |-> IF ~r.threw THEN "resolved"
                                   ELSE IF Rethrown(r.code) THEN "rejected"
                                   ELSE "flush"]
    /\ UNCHANGED <<now, file, media, lock, isProcessing, tick, sched,
                   cancel, faults, down, history, disp, post, input, cache, lookup>>

\* writeFile of init's flush (62, 106-114) settled; a writeFile that fails
\* has created nothing or a file with part of the text.
StoreInitFlush(ok, partial) ==
    /\ query.op = "init"
    /\ query.answer = "flush"
    /\ ok => ~partial
    /\ file' = IF ok THEN [state |-> "ok", jobs |-> jobs]
               ELSE IF partial THEN TornFile ELSE file
    /\ query' = [query EXCEPT !.answer = IF ok THEN "resolved" ELSE "rejected"]
    /\ UNCHANGED <<now, jobs, media, lock, isProcessing, tick, sched,
                   cancel, faults, down, history, disp, post, input, cache, lookup>>

NextInit ==
    \/ StoreInit
    \/ \E ok \in BOOLEAN, partial \in BOOLEAN : StoreInitFlush(ok, partial)

SpecInit == InitInit /\ [][NextInit]_vars

\* ------------------------------------------- the scheduler with progress

\* A cancel call that can change a job: for the first job, made while its
\* status is scheduled (125).
CancelFirst(c) ==
    /\ 1 \in DOMAIN jobs
    /\ jobs[1].status = "scheduled"
    /\ CancelCall(c, 1)

\* The scheduler in a process that does not die and whose writeFile calls
\* succeed: decryptJson, validate, the Publishers and rm may still fail.
NextLive ==
    \/ Advance
    \/ \E j \in JobIds, runAt \in 1..MaxTime, req \in Requests :
          Schedule(j, runAt, req.hasMedia, req.targets)
    \/ StoreWriteSched(TRUE)
    \/ StoreWriteCancel(TRUE)
    \/ \E decryptOk \in BOOLEAN, valid \in BOOLEAN :
          StoreWriteTick(TRUE, decryptOk, valid)
    \/ \E t \in TickIds : TickFire(t)
    \/ \E t \in TickIds, valid \in BOOLEAN : TickLoad(t, valid)
    \/ \E t \in TickIds, valid \in BOOLEAN : TickValidate(t, valid)
    \/ \E t \in TickIds, deliveries \in UNION {[req.targets -> {"ok", "fail"}] : req \in Requests} :
          TickPublish(t, deliveries)
    \/ \E t \in TickIds, ok \in BOOLEAN : TickCleanup(t, ok)
    \/ \E c \in CancelIds : CancelFirst(c)
    \/ \E c \in CancelIds, ok \in BOOLEAN : CancelCleanup(c, ok)
    \/ \E c \in CancelIds : CancelReturn(c)
    \/ \E t \in TickIds : TickSkipReturn(t)

\* An operation in flight settles, or the clock advances: the writeFile of
\* the store call that holds the lock, loadSegments' readFile, the capability
\* lookup, the Publishers, rm.
Settles ==
    \/ Advance
    \/ StoreWriteSched(TRUE)
    \/ StoreWriteCancel(TRUE)
    \/ \E decryptOk \in BOOLEAN, valid \in BOOLEAN :
          StoreWriteTick(TRUE, decryptOk, valid)
    \/ \E t \in TickIds, valid \in BOOLEAN : TickLoad(t, valid)
    \/ \E t \in TickIds, valid \in BOOLEAN : TickValidate(t, valid)
    \/ \E t \in TickIds, deliveries \in UNION {[req.targets -> {"ok", "fail"}] : req \in Requests} :
          TickPublish(t, deliveries)
    \/ \E t \in TickIds, ok \in BOOLEAN : TickCleanup(t, ok)
    \/ \E c \in CancelIds, ok \in BOOLEAN : CancelCleanup(c, ok)

\* A call that has its answer returns.
Returns ==
    \/ \E c \in CancelIds : CancelReturn(c)
    \/ \E t \in TickIds : TickSkipReturn(t)

\* The interval timer set in start() (46-48) keeps calling tick(), and time
\* does not stand still: as long as something is in flight or the clock can
\* advance, one of these happens.  Both are strong conditions: the step in
\* which a call hands over its answer takes no time, and however often such
\* steps happen they keep neither the timer from firing nor an operation in
\* flight from settling.
Progress ==
    /\ SF_vars(\E t \in TickIds : TickFire(t))
    /\ SF_vars(Settles)
    /\ WF_vars(Returns)

SpecLive == Init /\ [][NextLive]_vars /\ Progress

\* ------------------------------------------- cancel calls side by side

\* Two DELETE /v1/jobs/:id requests can be in flight at once.
CancelCalls == {1, 2}

InitCancel ==
    /\ now = 0
    /\ jobs = <<>>
    /\ file = [state |-> "ok", jobs |-> <<>>]
    /\ media = {}
    /\ lock = <<>>
    /\ isProcessing = FALSE
    /\ tick = [t \in TickIds |-> IdleTick]
    /\ sched = [j \in JobIds |-> "none"]
    /\ cancel = [c \in CancelCalls |-> IdleCancel]
    /\ faults = 0
    /\ down = FALSE
    /\ dispatched = [j \in JobIds |-> 0]
    /\ published = [j \in JobIds |-> 0]
    /\ started = {}
    /\ flushedRun = {}
    /\ cancelOk = {}
    /\ abandoned = {}
    /\ disp = IdleDisp
    /\ post = IdlePost
    /\ query = NoQuery
    /\ input = NoInput
    /\ cache = <<>>
    /\ lookup = [c \in LookupIds |-> IdleLookup]

\* schedule and cancel calls on a store no tick is working on.
NextCancel ==
    \/ \E j \in JobIds, runAt \in 1..MaxTime, req \in Requests :
          Schedule(j, runAt, req.hasMedia, req.targets)
    \/ \E ok \in BOOLEAN : StoreWriteSched(ok)
    \/ \E ok \in BOOLEAN : StoreWriteCancel(ok)
    \/ \E c \in CancelCalls, id \in JobIds : CancelCall(c, id)
    \/ \E c \in CancelCalls, ok \in BOOLEAN : CancelCleanup(c, ok)
    \/ \E c \in CancelCalls : CancelReturn(c)

SpecCancel == InitCancel /\ [][NextCancel]_vars

\* ------------------------------------------------------------ the claims

Times == 0..MaxTime
Active(t) == tick[t].pc \notin {"idle", "skipped"}
\* processJob or cancel is at work on job j.
Busy(j) ==
    \/ \E t \in TickIds : Active(t) /\ Head(tick[t].batch) = j
    \/ \E c \in CancelIds : cancel[c].pc \in {"upd", "rm"} /\ cancel[c].job = j
\* No failure of the environment (crash, failed write, failed rm, failed
\* decryption) in this step or before it.
Calm == faults = 0 /\ faults' = 0

Allowed == {<<"scheduled", "running">>, <<"running", "succeeded">>,
            <<"running", "partial">>, <<"running", "failed">>,
            <<"scheduled", "cancelled">>}

\* C1: every change of a job's stored status is one of scheduled->running,
\* running->succeeded, running->partial, running->failed and
\* scheduled->cancelled (so a terminal status never changes), here in runs
\* without any failure of the environment.
C1_StatusTransitions ==
    [][Calm => \A j \in DOMAIN jobs \cap DOMAIN jobs' :
                  jobs[j].status # jobs'[j].status
                  => <<jobs[j].status, jobs'[j].status>> \in Allowed]_vars

\* C2: once cancel(j) has returned its summary, no Publisher is started for
\* j any more and j's stored status is cancelled, here in runs without any
\* failure of the environment.
C2_CancelPreventsRun ==
    [][Calm => \A j \in cancelOk' \cap DOMAIN jobs' :
                  /\ jobs'[j].status = "cancelled"
                  /\ j \in cancelOk => published'[j] = published[j]]_vars

\* C3: at most one tick() invocation is past the guard at any time, the guard
\* is held exactly while one is, so it is released when the batch ends, by a
\* return or by an error; and a tick() called while the guard is held returns
\* at once, having fetched and changed nothing.
C3_NonOverlap ==
    /\ [](/\ Cardinality({t \in TickIds : Active(t)}) <= 1
          /\ isProcessing <=> \E t \in TickIds : Active(t))
    /\ [][\A t \in TickIds :
            (isProcessing /\ tick[t].pc = "idle" /\ tick'[t].pc # "idle")
            => /\ tick'[t] = [pc |-> "skipped", batch |-> <<>>]
               /\ UNCHANGED <<jobs, file, media, lock, isProcessing, history>>]_vars
\* A tick() call was skipped while a later batch was executing, after an
\* earlier batch had ended with an error.
C3_Witness ==
    /\ abandoned # {}
    /\ \E t \in TickIds : tick[t].pc = "skipped"
    /\ \E t \in TickIds : Active(t)

\* C4: the Dispatcher is called at most once for every job, over all ticks
\* and across restarts.
C4_DispatchAtMostOnce ==
    \A j \in JobIds : dispatched[j] <= 1
\* A job was dispatched, the process died while it was running and has been
\* started again, and a tick of the new process has run to its end.
C4_Witness ==
    \E j \in DOMAIN jobs :
        /\ dispatched[j] = 1
        /\ jobs[j].status = "running"
        /\ \E k \in DOMAIN jobs : k # j /\ jobs[k].status \in Terminal /\ dispatched[k] = 1
        /\ ~isProcessing

\* C5 as claimed: no call of listDue returns a job processJob was started
\* for before.
C5_NeverListedAfterStart ==
    [][\A t \in TickIds :
          (tick[t].pc = "idle" /\ Active(t)')
          => \A i \in 1..Len(tick'[t].batch) : tick'[t].batch[i] \notin started]_vars
\* C5 as amended: once the first update of processJob (status running) has
\* been written to the backing file, listDue returns the job for no
\* timestamp, in this process and after a restart, whatever status it has.
C5_NeverListedAfterRunningStored ==
    \A j \in flushedRun, t \in Times : j \notin listDue(jobs, t)
\* A job ended failed, the tick that ran it is over and the job is due.
C5_Witness ==
    \E j \in flushedRun \cap DOMAIN jobs :
        /\ jobs[j].status = "failed"
        /\ jobs[j].runAt <= now
        /\ ~isProcessing

\* C6: when processJob or cancel has finished for a job that is in a
\* terminal status, the job's media directory is gone, here in runs without
\* any failure of the environment.
C6_MediaDeletedWhenTerminal ==
    \A j \in DOMAIN jobs :
        (faults = 0 /\ jobs[j].status \in Terminal /\ ~Busy(j)) => j \notin media

\* C7: no job of a batch is left unprocessed by its tick because processing
\* an earlier job of the batch failed.
C7_BatchContinues ==
    abandoned = {}

\* C8: a cancel call for an unknown id answers 404, one for a job that is
\* not scheduled answers 409 naming the job's status, and neither changes a
\* job record, the backing file, the writer queue or a media directory.
C8_CancelRejects ==
    [][\A c \in CancelIds :
          (cancel[c].pc = "idle" /\ cancel'[c].pc # "idle")
          => LET id == cancel'[c].job
                 rejected == id \notin DOMAIN jobs \/ jobs[id].status # "scheduled"
             IN  rejected =>
                   /\ cancel'[c].pc = "ret"
                   /\ cancel'[c].result = IF id \in DOMAIN jobs THEN "409" ELSE "404"
                   /\ id \in DOMAIN jobs => cancel'[c].named = jobs[id].status
                   /\ UNCHANGED <<jobs, file, media, lock>>]_vars
\* A cancel call was answered 409 for a running job and another for a
\* terminal one.
C8_Witness ==
    \E c \in CancelIds :
        /\ cancel[c].pc = "ret" /\ cancel[c].result = "409"
        /\ cancel[c].named = "running"

\* C9: while cancel's update is being written the stored job has status
\* cancelled with completedAt set and is the record cancel returns; a
\* summary cancel returns has status cancelled and completedAt set; cancel
\* throws nothing but 404 and 409 unless the environment failed; and a
\* cancel call made after one returned a summary for the job answers 409.
C9_CancelThenConflict ==
    /\ (lock # <<>> /\ Head(lock).op = "cancelled" /\ Head(lock).job \in DOMAIN jobs)
       => /\ Head(lock).ret = {jobs[Head(lock).job]}
          /\ jobs[Head(lock).job].status = "cancelled"
          /\ jobs[Head(lock).job].completedAt
    /\ \A c \in CancelIds :
          /\ cancel[c].result = "ok"
             => \A s \in cancel[c].summary : s.status = "cancelled" /\ s.completedAt
          /\ cancel[c].result = "ok" => cancel[c].summary # {}
          /\ (cancel[c].pc = "ret" /\ faults = 0)
             => cancel[c].result \in {"ok", "404", "409"}
          /\ (cancel[c].late /\ cancel[c].pc # "idle")
             => cancel[c].pc = "ret" /\ cancel[c].result = "409"
\* A second cancel of a job was answered 409 after the first returned.
C9_Witness ==
    \E c \in CancelIds :
        cancel[c].late /\ cancel[c].result = "409" /\ cancel[c].named = "cancelled"

\* C10: with the Publishers of all requested targets settled, dispatch
\* returns success iff there is a requested target and all succeeded,
\* returns partial iff one succeeded and one failed, and throws the 502
\* delivery-failed problem iff none succeeded (no target requested included).
C10_Aggregate ==
    (disp.pc = "done" /\ disp.result \notin {"rule400", "lookup502"})
    => LET T == disp.targets
           d == disp.deliveries
           someOk   == \E p \in T : d[p] = "ok"
           someFail == \E p \in T : d[p] = "fail"
       IN  /\ DOMAIN d = T
           /\ disp.result \in {"success", "partial", "throw502"}
           /\ disp.result = "success" <=> (someOk /\ ~someFail)
           /\ disp.result = "partial" <=> (someOk /\ someFail)
           /\ disp.result = "throw502" <=> ~someOk
\* Three targets were requested, one failed, and dispatch returned partial.
C10_Witness ==
    /\ disp.pc = "done" /\ disp.result = "partial"
    /\ disp.targets = Platforms
    /\ Cardinality({p \in Platforms : disp.deliveries[p] = "fail"}) = 1

\* What holds of the deliveries of a dispatch call whatever the Publishers
\* do: entries exist only for requested targets whose Publisher settled, an
\* entry is a success exactly when its own Publisher resolved, and once
\* dispatch has returned an outcome or thrown the 502 there is one entry per
\* requested target.
DeliveriesIsolated ==
    /\ DOMAIN disp.deliveries \subseteq disp.targets
    /\ DOMAIN disp.thrown = DOMAIN disp.deliveries
    /\ DOMAIN disp.errors = DOMAIN disp.deliveries
    /\ \A p \in DOMAIN disp.deliveries :
          disp.deliveries[p] = "ok" <=> disp.thrown[p].kind = "resolved"
    /\ disp.result \in {"success", "partial", "throw502"}
       => DOMAIN disp.deliveries = disp.targets
\* While a dispatch call lasts, a Publisher that settles writes its own
\* entry only: no entry written before changes or disappears, and no
\* Publisher that was called is dropped.
OthersUntouched ==
    (disp.pc = "publishing" /\ disp'.pc \in {"publishing", "done"})
    => /\ disp'.invoked = disp.invoked
       /\ \A p \in DOMAIN disp.deliveries :
             /\ p \in DOMAIN disp'.deliveries
             /\ disp'.deliveries[p] = disp.deliveries[p]
             /\ disp'.errors[p] = disp.errors[p]

\* C11 as claimed: the Publishers of a dispatch call are isolated from each
\* other, dispatch settles only after all of them, deliveries has exactly
\* one entry per requested target, and a failure entry carries the message
\* of what its Publisher threw.
C11_FailureCarriesThrownMessage ==
    /\ [](/\ DeliveriesIsolated
          /\ \A p \in DOMAIN disp.deliveries :
                disp.deliveries[p] = "fail" => disp.errors[p] = disp.thrown[p].message)
    /\ [][OthersUntouched]_vars
\* C11 as amended: the same, but a failure entry carries the message of the
\* thrown value when that is an Error with a non-empty message, and the text
\* "Unknown publishing error" otherwise.
C11_PublishersIsolated ==
    /\ [](/\ DeliveriesIsolated
          /\ \A p \in DOMAIN disp.deliveries :
                disp.deliveries[p] = "fail"
                => disp.errors[p] =
                     IF disp.thrown[p].isError /\ disp.thrown[p].message # ""
                     THEN disp.thrown[p].message
                     ELSE "Unknown publishing error")
    /\ [][OthersUntouched]_vars
\* Three targets were requested, the Publisher of Mastodon threw an Error
\* and the two others resolved: dispatch returned with three entries.
C11_Witness ==
    /\ disp.pc = "done" /\ disp.targets = Platforms
    /\ DOMAIN disp.deliveries = Platforms
    /\ disp.deliveries["mastodon"] = "fail" /\ disp.errors["mastodon"] = "boom"
    /\ disp.deliveries["x"] = "ok" /\ disp.deliveries["bluesky"] = "ok"

\* C12: no Publisher has been called while validate is pending, and when
\* validate threw (a rule violation or a failed capability lookup) dispatch
\* ends with that error and no Publisher was called for any target.
C12_ValidationBeforePublish ==
    /\ disp.pc = "validating" => disp.invoked = {}
    /\ disp.result \in {"rule400", "lookup502"}
       => disp.pc = "done" /\ disp.invoked = {} /\ DOMAIN disp.thrown = {}
    /\ DOMAIN disp.thrown \subseteq disp.invoked
    /\ disp.invoked \in {{}, disp.targets}
\* Three targets were requested and the capability lookup failed.
C12_Witness ==
    /\ disp.pc = "done" /\ disp.result = "lookup502"
    /\ disp.targets = Platforms

\* The writer queue without what its head has computed.
Waiting(q) == [i \in 1..Len(q) |-> [q[i] EXCEPT !.ret = {}, !.snap = {}]]
\* One step of the writer queue, the death of the process apart: the head
\* may leave and one caller may join at the tail; nobody else moves.  A
\* writer that becomes the head has its mutation applied to the map as all
\* writers before it left it, and the map changes at no other moment.
QueueStep ==
    \/ UNCHANGED <<lock, jobs>>
    \/ lock' = <<>> /\ faults' = faults + 1
    \/ \E k \in {0, 1} :
          LET old  == Waiting(lock)
              new  == Waiting(lock')
              kept == Len(old) - k
          IN  /\ kept >= 0
              /\ Len(new) \in {kept, kept + 1}
              /\ \A i \in 1..kept : new[i] = old[i + k]
              /\ jobs' = IF new = <<>> \/ (k = 0 /\ old # <<>>) THEN jobs
                         ELSE Apply(jobs, new[1])

\* C13: create and update calls take effect one at a time in the order they
\* were called: only the head of the queue has run its body and is
\* flushing, what it flushes is the map as it is (every mutation so far),
\* and the queue is left at the head and joined at the tail only, each
\* writer's mutation being applied to the map as its predecessors left it.
C13_WritersSerialized ==
    /\ [](/\ \A i \in 2..Len(lock) : lock[i].snap = {} /\ lock[i].ret = {}
          /\ lock # <<>> => Head(lock).snap = {jobs})
    /\ [][QueueStep]_vars
\* Two schedule calls, processJob and a cancel call have a store call
\* pending at the same time.
C13_Witness ==
    /\ Len(lock) = 4
    /\ {lock[i].owner[1] : i \in 1..Len(lock)} = {"sched", "tick", "cancel"}

\* C14: whenever no create or update call is in flight, the backing file
\* holds exactly the in-memory job set, so that a fresh store running init()
\* on the file lists the same jobs, field for field.
C14_FileMirrorsMemory ==
    (lock = <<>> /\ ~down) => Loaded(file) = jobs

\* The same as long as no writeFile has failed and the process has not died.
C14_FileMirrorsMemoryNoFault ==
    (lock = <<>> /\ faults = 0) => Loaded(file) = jobs

\* C15: the rewrite of the backing file is atomic: whenever the process
\* dies, the file holds a complete state (the one before the mutation being
\* flushed or the one after it), and init() after the restart succeeds.
C15_AtomicRewrite ==
    /\ file.state = "ok"
    /\ ~down

\* The request at hand carries scheduleAt and its validation passed, so the
\* handler called schedule(); post.at is the clock schedule() read.
ScheduleCalled(p) ==
    p.scheduleAt.present /\ p.validation = "pass"

\* C16: schedule with a runAt that does not parse or is not strictly after
\* the current time (equal to it included) fails with the 400
\* invalid-schedule problem and changes nothing: no id is drawn, no job
\* enters the store or the file, no media is written.
C16_InvalidScheduleRejected ==
    /\ [](ScheduleCalled(post)
             /\ (~post.scheduleAt.parses \/ post.scheduleAt.time <= post.at)
          => /\ post.pc = "done"
             /\ post.result = "400 invalid-schedule"
             /\ post.job = 0)
    /\ [][post'.result = "400 invalid-schedule" /\ post.result # post'.result
          => UNCHANGED <<jobs, file, media, lock>>]_vars
\* schedule() has refused a request with media whose runAt is the current
\* time exactly, with a job already in the store.
C16_Witness ==
    /\ post.result = "400 invalid-schedule"
    /\ post.scheduleAt.parses
    /\ post.scheduleAt.time = post.at
    /\ post.hasMedia
    /\ jobs # <<>>

\* C17: schedule with a runAt strictly in the future creates exactly one new
\* job, under an id no job had, with status scheduled and attemptCount 0 and
\* every other job left as it was; when it returns, the job is in the store
\* and in the file, the summary returned is that job's, and no Publisher has
\* been invoked.
C17_ScheduleCreatesOneJob ==
    /\ [](/\ post.result = "202"
             => /\ ScheduleCalled(post)
                /\ post.scheduleAt.parses /\ post.scheduleAt.time > post.at
                /\ post.job \in DOMAIN jobs
                /\ jobs[post.job].status = "scheduled"
                /\ jobs[post.job].attemptCount = 0
                /\ jobs[post.job].runAt = post.scheduleAt.time
                /\ post.summary = {toJobSummary(jobs[post.job])}
                /\ post.job \in DOMAIN Loaded(file)
                /\ Loaded(file)[post.job] = jobs[post.job]
                /\ post.hasMedia => post.job \in media
                /\ disp.invoked = {}
          /\ (/\ post.pc = "done" /\ ScheduleCalled(post) /\ faults = 0
              /\ post.scheduleAt.parses /\ post.scheduleAt.time > post.at)
             => post.result = "202")
    /\ [][jobs' # jobs
          => /\ post'.job \notin DOMAIN jobs
             /\ DOMAIN jobs' = DOMAIN jobs \cup {post'.job}
             /\ \A k \in DOMAIN jobs : jobs'[k] = jobs[k]
             /\ jobs'[post'.job].status = "scheduled"
             /\ jobs'[post'.job].attemptCount = 0
             /\ UNCHANGED <<disp, dispatched, published>>]_vars
\* A second job, with media, has been scheduled and its summary returned.
C17_Witness ==
    /\ post.result = "202"
    /\ post.job = 2
    /\ post.hasMedia
    /\ Cardinality(DOMAIN jobs) = 2

\* C19: a request with scheduleAt that fails validation (a rule violated, or
\* the capability lookup failed) is answered with the validation error
\* before the Scheduler is called: no id is drawn, no job is created and no
\* media is persisted.
C19_InvalidRequestNotScheduled ==
    /\ [](post.scheduleAt.present /\ post.validation \notin {"none", "pass"}
          => /\ post.pc = "done"
             /\ post.result = post.validation
             /\ post.job = 0)
    /\ [][post'.scheduleAt.present /\ post'.validation \notin {"none", "pass"}
             /\ post' # post
          => UNCHANGED <<jobs, file, media, lock>>]_vars
\* A request with media and a future scheduleAt has been rejected because
\* the capability lookup failed.
C19_Witness ==
    /\ post.pc = "done"
    /\ post.validation = "lookup502"
    /\ post.scheduleAt.parses
    /\ post.scheduleAt.time > post.at
    /\ post.hasMedia

\* A sequence of job ids without repetition whose keys never decrease.
Ascending(js, answer, key(_)) ==
    /\ \A i \in 1..Len(answer), k \in 1..Len(answer) :
          i < k => answer[i] # answer[k] /\ key(js[answer[i]]) <= key(js[answer[k]])

\* C18: for every store content and every timestamp t, listDue(t) returns
\* exactly the jobs with status scheduled and runAt <= t, in ascending runAt
\* order, and list() returns every job in ascending creation-time order.
C18_ListDueAndListOrdered ==
    LET runAt(job) == job.runAt
        createdAt(job) == job.createdAt
        ids == {query.answer[i] : i \in 1..Len(query.answer)}
    IN  /\ query.op = "listDue"
           => /\ ids = {j \in DOMAIN jobs : /\ jobs[j].status = "scheduled"
                                            /\ jobs[j].runAt <= query.at}
              /\ Ascending(jobs, query.answer, runAt)
        /\ query.op = "list"
           => /\ ids = DOMAIN jobs
              /\ Ascending(jobs, query.answer, createdAt)

\* The same for store contents whose runAt are all within year 9999.
C18_OrderedWithinYear9999 ==
    (\A j \in DOMAIN jobs : jobs[j].runAt <= Year9999)
        => C18_ListDueAndListOrdered

\* The record of job j says what the outcome of its dispatch said.
OutcomeRecorded(j) ==
    LET outcome == CHOOSE d \in jobs[j].deliveries : TRUE
    IN  /\ jobs[j].status = IF Aggregate(outcome) = "success" THEN "succeeded"
                            ELSE "partial"
        /\ jobs[j].completedAt
        /\ jobs[j].lastError = {}

\* C20: once processJob's dispatch has returned an outcome and its
\* deliveries are in the job's record, the record has status succeeded iff
\* the outcome's overall is success and partial iff it is partial, completedAt
\* is set and lastError is absent; such a job is never recorded as failed.
C20_OutcomeRecorded ==
    \A j \in DOMAIN jobs : jobs[j].deliveries # {} => OutcomeRecorded(j)

\* The same as long as no writeFile or rm has failed and the process has not
\* died.
C20_OutcomeRecordedNoFault ==
    \A j \in DOMAIN jobs :
        jobs[j].deliveries # {} /\ faults = 0 => OutcomeRecorded(j)

\* What processJob's try block can throw at each position of the tick: the
\* messages of decryptJson, of loadSegments' readFile, of validate and of
\* dispatch, and those of the final update and of cleanupMedia.
ThrownAt(pc) ==
    CASE pc = "upd1"     -> {"decrypt", "validation"}
      [] pc = "load"     -> {"media", "validation"}
      [] pc = "validate" -> {"validation"}
      [] pc = "publish"  -> {"delivery"}
      [] pc = "upd2"     -> {"write"}
      [] pc = "cleanup"  -> {"cleanup"}
      [] OTHER           -> {}

\* The update of tick t's catch block, where it waits in the store's queue.
CatchUpdate(t) ==
    {i \in 1..Len(lock) : /\ lock[i].owner = Owner("tick", t)
                          /\ lock[i].op = "failed"
                          /\ lock[i].job = Head(tick[t].batch)}

\* C21: when decryption, media loading, validation or dispatch throws while
\* a due job is processed, the catch block's update is issued with the thrown
\* error's message; once applied the job has status failed, completedAt set
\* and lastError equal to that message, and keeps them; the tick goes on to
\* the next job or ends, so the error reaches no caller of tick.
C21_FailureRecorded ==
    /\ [](/\ \A t \in TickIds : tick[t].pc = "updF"
                => /\ CatchUpdate(t) # {}
                   /\ 1 \in CatchUpdate(t)
                        => LET j == Head(tick[t].batch)
                           IN  /\ jobs[j].status = "failed"
                               /\ jobs[j].completedAt
                               /\ jobs[j].lastError = {lock[1].msg}
          /\ \A j \in DOMAIN jobs : jobs[j].lastError # {}
                => jobs[j].status = "failed" /\ jobs[j].completedAt)
    /\ [][/\ \A t \in TickIds : tick[t].pc # "updF" /\ tick'[t].pc = "updF"
                => \E i \in 1..Len(lock') :
                      /\ lock'[i].owner = Owner("tick", t)
                      /\ lock'[i].op = "failed"
                      /\ lock'[i].job = Head(tick[t].batch)
                      /\ lock'[i].msg \in ThrownAt(tick[t].pc)
          /\ \A t \in TickIds : tick[t].pc = "updF" /\ tick'[t].pc # "updF"
                => \/ jobs' = Loaded(file') /\ lock' = <<>> /\ ~isProcessing'
                   \/ LET j == Head(tick[t].batch)
                      IN  /\ jobs'[j].status = "failed"
                          /\ jobs'[j].lastError = {Head(lock).msg}
                          /\ tick'[t].pc \in {"idle", "upd1"}
          /\ \A j \in DOMAIN jobs : jobs[j].lastError # {}
                => \/ jobs' = Loaded(file') /\ lock' = <<>>
                   \/ jobs'[j] = jobs[j]]_vars
\* Dispatch threw for a job (no target succeeded), the failure is stored in
\* memory and in the file, and the tick is over.
C21_Witness ==
    \E j \in DOMAIN jobs :
        /\ jobs[j].status = "failed"
        /\ jobs[j].lastError = {"delivery"}
        /\ ~Busy(j)
        /\ j \in DOMAIN Loaded(file)
        /\ Loaded(file)[j] = jobs[j]

\* C22: decryptJson(encryptJson(v, key), key) equals v for every JSON value
\* v and every key.
C22_RoundTrip ==
    (/\ query.op = "decryptJson"
     /\ query.answer.token = query.answer.sealed
     /\ query.answer.key = input.key)
        => /\ ~query.answer.out.threw
           /\ query.answer.out.value = input.value
\* An array of two values has been sealed and opened again.
C22_Witness ==
    /\ query.op = "decryptJson"
    /\ query.answer.token = query.answer.sealed
    /\ query.answer.key = input.key
    /\ input.value.t = "arr"
    /\ Len(input.value.items) = 2
    /\ ~query.answer.out.threw

\* C23: decryptJson throws, and returns no value, for every token whose
\* version tag is not v1, that lacks one of the four components, that
\* differs from the token encryptJson produced in any byte, or that is
\* opened with a different key.
C23_FailsClosed ==
    (/\ query.op = "decryptJson"
     /\ query.answer.token # query.answer.sealed \/ query.answer.key # input.key)
        => query.answer.out.threw

\* What does hold: decryptJson throws when the version tag is not v1, when
\* a component is missing or empty, when a byte that iv, tag or ciphertext
\* decode to is changed, and when the key is another one.
C23_FailsClosedOnContent ==
    (/\ query.op = "decryptJson"
     /\ \/ query.answer.change \in {"version", "remove", "empty", "byte", "forge"}
        \/ query.answer.key # input.key)
        => query.answer.out.threw

\* The instance URL with one trailing slash stripped, in the claim's words.
OneSlashStripped(u) ==
    IF u.slashes = 0 THEN u ELSE [host |-> u.host, slashes |-> u.slashes - 1]

\* A call of fetchMastodonInstanceLimits for url starts in this step: it is
\* answered from the cache or goes on to fetch.
Answered(url) ==
    /\ query = NoQuery /\ query'.op = "fetchMastodonInstanceLimits"
    /\ lookup' = lookup
    /\ query'.answer.url = url
Fetching(url) ==
    \E c \in LookupIds :
        /\ lookup[c].pc = "idle" /\ lookup'[c].pc = "fetching"
        /\ lookup'[c].url = url
LookupStarts(url) == Answered(url) \/ Fetching(url)

\* The call returned the entry's limits without a network call.
ServedFromCache(url, k) ==
    /\ Answered(url)
    /\ ~query'.answer.network
    /\ k \in DOMAIN cache
    /\ query'.answer.result = "ok"
    /\ query'.answer.data = cache[k].data
    /\ cache' = cache

\* A fetch that succeeded replaces the entry of its key with the fetched
\* limits, a failed one leaves the cache alone, and nothing else writes it.
FetchReplaces ==
    /\ \A c \in LookupIds :
          (lookup[c].pc = "fetching" /\ lookup'[c].pc = "idle")
             => LET k == OneSlashStripped(lookup[c].url)
                IN  /\ query'.answer.network
                    /\ IF query'.answer.result = "ok"
                       THEN /\ k \in DOMAIN cache'
                            /\ cache'[k].data = query'.answer.data
                            /\ \A o \in DOMAIN cache' \ {k} :
                                  o \in DOMAIN cache /\ cache'[o] = cache[o]
                       ELSE cache' = cache
    /\ (\A c \in LookupIds : lookup[c].pc # "fetching") => cache' = cache

\* C24 as stated: the call is served from the cache exactly when the entry of
\* the stripped URL exists and was stored less than the time to live ago.
C24_CachedIffYoungerThanTtl ==
    [][/\ \A url \in Urls : LookupStarts(url)
             => LET k == OneSlashStripped(url)
                    young == /\ k \in DOMAIN cache
                             /\ now - cache[k].data.fetchedAt < MASTODON_CACHE_TTL_MS
                IN  /\ ServedFromCache(url, k) <=> young
                    /\ ~young => Fetching(url)
       /\ FetchReplaces]_vars

\* C24 (fetchMastodonInstanceLimits): the call is served from the cache,
\* without a network call, exactly when an entry exists for the instance URL
\* with one trailing slash stripped and less than the time to live has passed
\* since the START of the call that fetched it (the entry expires at that
\* call's clock reading plus the time to live, however long its fetch took);
\* otherwise it fetches, and a successful fetch replaces the entry with the
\* fetched limits.
C24_CachedIffWithinTtlOfFetchStart ==
    /\ [](\A k \in DOMAIN cache :
             cache[k].expiresAt <= cache[k].data.fetchedAt + MASTODON_CACHE_TTL_MS)
    /\ [][/\ \A url \in Urls : LookupStarts(url)
                => LET k == OneSlashStripped(url)
                       live == /\ k \in DOMAIN cache
                               /\ now < cache[k].expiresAt
                   IN  /\ ServedFromCache(url, k) <=> live
                       /\ ~live => Fetching(url)
          /\ FetchReplaces
          /\ \A c \in LookupIds :
                (lookup[c].pc = "fetching" /\ lookup'[c].pc = "idle"
                    /\ query'.answer.result = "ok")
                   => cache'[OneSlashStripped(lookup[c].url)].expiresAt
                         = lookup[c].now + MASTODON_CACHE_TTL_MS]_vars

\* A call under a URL with two trailing slashes was served from the cache
\* while the entry of the bare host, stored by a fetch that took time, has
\* expired although it was stored less than the time to live ago.
C24_Witness ==
    /\ query.op = "fetchMastodonInstanceLimits"
    /\ ~query.answer.network
    /\ query.answer.url.slashes = 2
    /\ \E k \in DOMAIN cache :
          /\ k.slashes = 0
          /\ cache[k].expiresAt <= now
          /\ now - cache[k].data.fetchedAt < MASTODON_CACHE_TTL_MS

\* The kind of a MIME type whatever its case, in the claim's words.
IsImage(m) == m.major = "image"
IsVideo(m) == m.major = "video"
IsMp4(m) == m.major = "video" /\ m.minor = "mp4"
Count(items, Is(_)) == Cardinality({i \in 1..Len(items) : Is(items[i])})

\* The media lists Bluesky takes, as C25 words them.
BlueskyAccepts(items) ==
    /\ \A i \in 1..Len(items) : IsImage(items[i]) \/ IsVideo(items[i])
    /\ \/ Len(items) = 0
       \/ Count(items, IsImage) \in 1..4 /\ Count(items, IsVideo) = 0
       \/ /\ Count(items, IsVideo) = 1 /\ Count(items, IsMp4) = 1
          /\ Count(items, IsImage) = 0

\* The rules validate runs before the Bluesky media rule pass.
TextRulesPass(r) ==
    /\ Len(r.segments) > 0
    /\ \A i \in 1..Len(r.segments) :
          LET text == r.segments[i].text
              points == Total(text, [ch \in {"a", " ", "G"} |-> 1])
          IN  /\ \E k \in 1..Len(text) : text[k].ch # " "
              /\ "x" \in r.targets => points <= 280
              /\ "bluesky" \in r.targets => points <= 300

\* C25 (validateBlueskyMedia): with Bluesky targeted and the text rules
\* passed, validate throws a 400 bluesky-media-invalid problem exactly when
\* some segment's media list is not one Bluesky takes (empty, 1 to 4 images,
\* or one video/mp4), and it throws that problem for no request without
\* Bluesky among its targets.
C25_BlueskyMediaRule ==
    query.op \in {"validate", "validate.await"}
       => LET bad == /\ "bluesky" \in input.targets
                     /\ \E i \in 1..Len(input.segments) :
                           ~BlueskyAccepts(input.segments[i].media)
              thrown == /\ query.op = "validate"
                        /\ query.answer.threw
                        /\ query.answer.problem.type = "bluesky-media-invalid"
          IN  /\ thrown => bad /\ query.answer.problem.status = 400
              /\ (TextRulesPass(input) /\ bad) => thrown

\* Two segments, the first without media and the second with five images:
\* the media rule threw.  (The lists of four images, of one upper-case
\* video/mp4 and of mixed kinds are among the requests as well.)
C25_Witness ==
    /\ query.op = "validate"
    /\ query.answer.problem.type = "bluesky-media-invalid"
    /\ Len(input.segments) = 2
    /\ Len(input.segments[2].media) = 5
    /\ Count(input.segments[2].media, IsImage) = 5

\* A request with a list of four images and one with a single upper-case
\* video/mp4 passed validation with Bluesky targeted.
C25_Accepted ==
    /\ query.op = "validate" /\ ~query.answer.threw
    /\ "bluesky" \in input.targets
    /\ \E i \in 1..Len(input.segments) :
          \/ Count(input.segments[i].media, IsImage) = 4
          \/ input.segments[i].media = <<Mime("video", "mp4", TRUE)>>

\* The number of code points of a text and whether it is all white space, in
\* the claims' words.
CodePoints(text) == Total(text, [ch \in {"a", " ", "G"} |-> 1])
NonEmptySegments(r) ==
    /\ Len(r.segments) > 0
    /\ \A i \in 1..Len(r.segments) :
          \E k \in 1..Len(r.segments[i].text) :
              r.segments[i].text[k].ch # " " /\ r.segments[i].text[k].n > 0

\* C26 (the X rule of validate): with non-empty segments, validate throws
\* the x-length-exceeded problem exactly when X is targeted and some
\* segment has more than 280 code points; the problem has status 400 and
\* cites the number of the first such segment, its exact code-point count
\* and the limit 280; segments of exactly 280 code points pass the rule.
C26_XLengthRule ==
    (query.op \in {"validate", "validate.await"} /\ NonEmptySegments(input))
       => LET over == {i \in 1..Len(input.segments) :
                          CodePoints(input.segments[i].text) > 280}
              thrown == /\ query.op = "validate"
                        /\ query.answer.threw
                        /\ query.answer.problem.type = "x-length-exceeded"
          IN  /\ thrown <=> ("x" \in input.targets /\ over # {})
              /\ thrown
                   => LET first == CHOOSE i \in over : \A o \in over : i <= o
                      IN  query.answer.problem
                             = Problem(400, "x-length-exceeded", first,
                                       CodePoints(input.segments[first].text), 280)

\* The first segment has exactly 280 code points in 560 UTF-16 units, the
\* second 281 code points: the problem cites segment 2 and the count 281.
C26_Witness ==
    /\ query.op = "validate"
    /\ Len(input.segments) = 2
    /\ input.segments[1].text = <<Run("G", 280)>>
    /\ query.answer.problem = Problem(400, "x-length-exceeded", 2, 281, 280)

\* The problem types of the two classes.
UpstreamTypes == {"mastodon-instance-unreachable", "mastodon-instance-error",
                  "mastodon-instance-invalid"}
ClientTypes == {"mastodon-length-exceeded", "mastodon-media-exceeded"}
ExceedsLimits(r, limits) ==
    \E i \in 1..Len(r.segments) :
        \/ CodePoints(r.segments[i].text) > limits.maxCharacters
        \/ Len(r.segments[i].media) > limits.maxMediaAttachments

\* C27 (validate with Mastodon targeted): when the capability lookup fails
\* because the instance is unreachable, answers a non-2xx status or has no
\* status configuration, validate throws a problem of status 502 with the
\* lookup's upstream type; when the lookup answers limits and a segment
\* exceeds maxCharacters or maxMediaAttachments, validate throws a problem
\* of status 400 with a Mastodon limit type, and throws nothing when no
\* segment exceeds them; no problem of one class has the status or the type
\* of the other.
C27_UpstreamAndClientClasses ==
    (query.op = "validate" /\ query.answer.lookup # "none")
       => LET a == query.answer
          IN  /\ "mastodon" \in input.targets
              /\ a.lookup \in UpstreamTypes
                   => /\ a.threw
                      /\ a.problem.status = 502
                      /\ a.problem.type = a.lookup
              /\ a.lookup = "limits"
                   => /\ a.threw <=> ExceedsLimits(input, a.limits)
                      /\ a.threw => /\ a.problem.status = 400
                                    /\ a.problem.type \in ClientTypes
              /\ a.problem.status = 502 => a.problem.type \notin ClientTypes
              /\ a.problem.status = 400 => a.problem.type \notin UpstreamTypes
              /\ UpstreamTypes \cap ClientTypes = {}

\* The instance answered a non-2xx status for a request whose only segment
\* would also exceed every limit: the 502 problem was thrown.
C27_Witness ==
    /\ query.op = "validate"
    /\ query.answer.lookup = "mastodon-instance-error"
    /\ query.answer.problem.status = 502
    /\ input.targets = {"mastodon"}
    /\ Len(input.segments) = 1
    /\ CodePoints(input.segments[1].text) = 501

\* The lookup answered limits of 280 characters and one attachment; a
\* segment with two attachments made validate throw the 400 problem.
C27_ClientWitness ==
    /\ query.op = "validate"
    /\ query.answer.lookup = "limits"
    /\ query.answer.limits.maxMediaAttachments = 1
    /\ query.answer.problem.status = 400
    /\ query.answer.problem.type = "mastodon-media-exceeded"

\* The job the request asked for is in the store and in the file.
Queued(p) ==
    /\ p.job \in DOMAIN jobs
    /\ p.job \in DOMAIN Loaded(file)
    /\ Loaded(file)[p.job] = jobs[p.job]

\* C28 (POST /v1/posts): the answer is 202 exactly when the request carries
\* scheduleAt and its job was queued; for a request without scheduleAt it is
\* 201 exactly when dispatch ran and every requested target succeeded, and
\* 207 exactly when the outcome of dispatch is partial (a target succeeded
\* and a target failed); 201 and 207 are never the answer to a request with
\* scheduleAt, and while such a request is handled no Publisher is invoked.
C28_StatusCodes ==
    /\ post.pc = "done"
         => LET T == post.targets
                d == disp.deliveries
                ran == disp.pc = "done" /\ DOMAIN d = T /\ T # {}
            IN  /\ post.result = "202" <=> (post.scheduleAt.present /\ Queued(post))
                /\ post.result = "201"
                     <=> /\ ~post.scheduleAt.present
                         /\ ran
                         /\ \A q \in T : d[q] = "ok"
                /\ post.result = "207"
                     <=> /\ ~post.scheduleAt.present
                         /\ ran
                         /\ \E q \in T : d[q] = "ok"
                         /\ \E q \in T : d[q] = "fail"
                /\ post.result = "207" <=>
                     (~post.scheduleAt.present /\ disp.result = "partial")
    /\ (post.pc # "idle" /\ post.scheduleAt.present)
         => disp.invoked = {} /\ disp.pc = "off"

\* One request with both targets was answered 207 while a job queued by an
\* earlier request, answered 202, is in the store.
C28_Witness ==
    /\ post.pc = "done" /\ post.result = "207"
    /\ post.targets = {"x", "mastodon"}
    /\ jobs # <<>>

\* A request with scheduleAt and media has been answered 202.
C28_Scheduled ==
    /\ post.pc = "done" /\ post.result = "202"
    /\ post.hasMedia
    /\ disp.invoked = {}

\* Tick t is inside the for loop of tick(): a job of its batch is in
\* processJob.
Processing(t) == tick[t].pc \notin {"idle", "skipped"}
FinalStatuses == {"succeeded", "partial", "failed"}

C30_RunningWhilePublishing ==
    \A t \in TickIds : tick[t].pc = "publish"
        => LET j == Head(tick[t].batch)
           IN  /\ j \in flushedRun
               /\ jobs[j].status = "running"
               /\ jobs[j].attemptCount >= 1
               /\ j \in DOMAIN Loaded(file)
               /\ Loaded(file)[j].status = "running"

\* What does hold: status running and the incremented attemptCount enter the
\* store in one step, and before the payload is decrypted or a Publisher is
\* invoked that update is in the file; while the Publishers run the stored
\* status is running or, after a cancel call that was queued behind the
\* update, cancelled.
C30_RunningFlushedBeforeDispatch ==
    /\ [](\A t \in TickIds : tick[t].pc \in {"load", "validate", "publish"}
             => LET j == Head(tick[t].batch)
                IN  /\ j \in flushedRun
                    /\ jobs[j].status \in {"running", "cancelled"}
                    /\ jobs[j].attemptCount >= 1
                    /\ j \in DOMAIN Loaded(file)
                    /\ Loaded(file)[j].attemptCount >= 1)
    /\ [][\A j \in DOMAIN jobs :
             (j \in DOMAIN jobs' /\ jobs'[j].attemptCount # jobs[j].attemptCount
                 /\ jobs' # Loaded(file'))
                => /\ jobs'[j].attemptCount = jobs[j].attemptCount + 1
                   /\ jobs'[j].status = "running"]_vars

\* The request the Dispatcher got carries what request R carried: targets,
\* clientRequestId, the texts in order and, per segment, the media items in
\* order with their bytes, MIME type and alt text.
SameAsScheduled(got, R) ==
    /\ got.targets = R.targets
    /\ got.clientRequestId = R.clientRequestId
    /\ Len(got.segments) = Len(R.segments)
    /\ \A i \in 1..Len(R.segments) :
          /\ got.segments[i].text = R.segments[i].text
          /\ Len(got.segments[i].media) = Len(R.segments[i].media)
          /\ \A k \in 1..Len(R.segments[i].media) :
                /\ got.segments[i].media[k].buffer = R.segments[i].media[k].buffer
                /\ got.segments[i].media[k].mimeType = R.segments[i].media[k].mimeType
                /\ got.segments[i].media[k].altText = R.segments[i].media[k].altText

\* C31 (schedule, processJob): a job scheduled with request R and processed
\* with the references persistMedia wrote, with or without a restart in
\* between, does not fail before dispatch, and the Dispatcher is called with
\* R's targets, clientRequestId, segment texts in order and, per segment,
\* media items in order with the same bytes, MIME type and alt text.
C31_DispatchReusesCaptured ==
    (query.op = "processed" /\ ~query.answer.stray)
       => /\ ~query.answer.threw
          /\ SameAsScheduled(query.answer.request, input.request)

\* A request of two segments, the first with two media items of the same
\* file name and different bytes, was processed after a restart.
C31_Witness ==
    /\ query.op = "processed" /\ ~query.answer.stray /\ query.answer.restarted
    /\ ~query.answer.threw
    /\ Len(input.request.segments) = 2
    /\ Len(input.request.segments[1].media) = 2
    /\ input.request.segments[1].media[1].fileName
          = input.request.segments[1].media[2].fileName
    /\ input.request.segments[1].media[1].buffer
          # input.request.segments[1].media[2].buffer
    /\ Len(query.answer.request.segments[2].media) = 1

\* C32 (loadSegments): a media reference whose segmentIndex is outside the
\* stored segments is dropped without error: the job does not fail and is
\* dispatched with the media of the other references.
C32_OutOfRangeDropped ==
    (query.op = "processed" /\ query.answer.stray)
       => /\ ~query.answer.threw
          /\ SameAsScheduled(query.answer.request, input.request)

\* C32, the part that holds: the reference is dropped without error when the
\* file at its path can be read.
C32_DroppedWhenReadable ==
    (query.op = "processed" /\ query.answer.stray
        /\ StrayPath \in DOMAIN query.answer.files)
       => /\ ~query.answer.threw
          /\ SameAsScheduled(query.answer.request, input.request)

\* A job with an out-of-range reference to a readable file was dispatched
\* with the media of its own reference.
C32_DroppedWitness ==
    /\ query.op = "processed" /\ query.answer.stray
    /\ StrayPath \in DOMAIN query.answer.files
    /\ ~query.answer.threw
    /\ Len(query.answer.request.segments[1].media) = 1

\* C33 (JobStore.init): on an absent file init() goes to flush(), and when
\* it has returned the file holds an empty job state and the store is empty;
\* on a file that cannot be read or parsed for another reason init() rejects,
\* the file is as it was and the store is empty.
C33_InitAbsentOrBroken ==
    /\ (query.op = "init" /\ input.file.state = "absent")
          => /\ jobs = <<>>
             /\ query.answer = "resolved" => file = [state |-> "ok", jobs |-> <<>>]
             /\ query.answer = "flush" => file = input.file
             /\ query.answer = "rejected" => file \in {input.file, TornFile}
    /\ (query.op = "init" /\ input.file.state \in BrokenStates)
          => /\ query.answer = "rejected"
             /\ file = input.file
             /\ jobs = <<>>

\* init() returned on a file that was absent.
C33_Witness ==
    /\ query.op = "init" /\ input.file.state = "absent"
    /\ query.answer = "resolved"
    /\ file.state = "ok"

\* init() rejected on a file whose text JSON.parse does not accept.
C33_BrokenWitness ==
    /\ query.op = "init" /\ input.file.state = "corrupt"
    /\ query.answer = "rejected"

\* A step during which the Publishers of tick t's job have not returned.
StillPublishing(t) == tick[t].pc = "publish" /\ tick'[t].pc = "publish"

\* While a Publisher call has not returned, the guard is set, every tick that
\* fires is skipped, and no other job is started, dispatched or published.
GuardHeld ==
    /\ [](\A t \in TickIds : tick[t].pc = "publish"
             => /\ isProcessing
                /\ \A u \in TickIds \ {t} : ~Processing(u))
    /\ [][\A t \in TickIds : StillPublishing(t)
             => /\ isProcessing'
                /\ \A u \in TickIds \ {t} :
                      tick'[u].pc # tick[u].pc => tick'[u].pc \in {"idle", "skipped"}
                /\ started' = started
                /\ dispatched' = dispatched
                /\ published' = published
                /\ \A k \in DOMAIN jobs :
                      (k \in DOMAIN jobs' /\ jobs'[k].status = "running")
                         => jobs[k].status = "running"]_vars

\* C34 (tick, dispatch): as long as a Publisher call made for a job has not
\* returned, the guard is not released, every later tick is skipped, no other
\* due job is processed, and the job's stored status is running.
C34_HungPublisherHoldsGuard ==
    /\ GuardHeld
    /\ [](\A t \in TickIds : tick[t].pc = "publish"
             => jobs[Head(tick[t].batch)].status = "running")

\* C34, the part that holds: the guard stays set and nothing else is
\* processed; the stored status of the hung job is running or, after a cancel
\* call queued behind the running update, cancelled, and never a final one.
C34_GuardNeverReleased ==
    /\ GuardHeld
    /\ [](\A t \in TickIds : tick[t].pc = "publish"
             => jobs[Head(tick[t].batch)].status \in {"running", "cancelled"})

\* With a Publisher call outstanding, a second job is due and a tick that
\* fired has been skipped.
C34_SkippedWitness ==
    \E t \in TickIds, u \in TickIds :
        /\ tick[t].pc = "publish"
        /\ tick[u].pc = "skipped"
        /\ \E k \in DOMAIN jobs : k # Head(tick[t].batch)
                                     /\ jobs[k].status = "scheduled"
                                     /\ jobs[k].runAt <= now

\* C35 (processJob): once the Dispatcher has returned an outcome for a job
\* and the final update has put its deliveries into the record, the job's
\* status is succeeded or partial and does not become failed afterwards, also
\* when the final store write or the media cleanup fails.
C35_OutcomeNeverFailed ==
    /\ [](\A j \in DOMAIN jobs :
             jobs[j].deliveries # {} => jobs[j].status \in {"succeeded", "partial"})
    /\ [][\A j \in DOMAIN jobs :
             (jobs[j].deliveries # {} /\ j \in DOMAIN jobs')
                => jobs'[j].status # "failed"]_vars

\* C35, the part that holds: a job with an outcome is recorded as failed only
\* by the catch block running for a failed final write or a failed cleanup.
C35_FailedOnlyAfterLaterStep ==
    \A j \in DOMAIN jobs :
        jobs[j].deliveries # {}
           => \/ jobs[j].status \in {"succeeded", "partial"}
              \/ /\ jobs[j].status = "failed"
                 /\ jobs[j].lastError \in {{"write"}, {"cleanup"}}
                 /\ faults > 0

\* A job whose deliveries are recorded has status failed with the cleanup's
\* error as lastError.
C35_FailedWitness ==
    \E j \in DOMAIN jobs :
        /\ jobs[j].deliveries # {}
        /\ jobs[j].status = "failed"
        /\ jobs[j].lastError = {"cleanup"}

\* C36 (start, tick, processJob): in a process that does not die, with
\* writes that succeed, ticks that keep firing and lookups and Publishers
\* that return, every job in the store with status scheduled eventually has
\* a terminal status at a time at or after its runAt.
C36_EventuallyTerminal ==
    \A j \in JobIds :
        [](j \in DOMAIN jobs /\ jobs[j].status = "scheduled"
              => <>(/\ j \in DOMAIN jobs
                    /\ jobs[j].status \in Terminal
                    /\ now >= jobs[j].runAt))

\* Both jobs were processed to a final status after their runAt, the second
\* one by a later tick than the first.
C36_Witness ==
    /\ DOMAIN jobs = {1, 2}
    /\ \A j \in {1, 2} : jobs[j].status \in FinalStatuses /\ now >= jobs[j].runAt
    /\ jobs[1].status = "succeeded"
    /\ \A t \in TickIds : tick[t].pc = "idle"

\* Job j has status running in the store and in the file and no processJob
\* or cancel call is working on it: the state a restart leaves of a job whose
\* running update was persisted when the process died.
LeftRunning(j) ==
    /\ ~down
    /\ j \in DOMAIN jobs /\ jobs[j].status = "running"
    /\ file.state = "ok" /\ j \in DOMAIN file.jobs
    /\ file.jobs[j].status = "running"
    /\ \A t \in TickIds : Processing(t) => Head(tick[t].batch) # j
    /\ \A i \in 1..Len(lock) : lock[i].job # j
    /\ \A c \in CancelIds : cancel[c].pc = "rm" => cancel[c].job # j

\* C37 (init, listDue, processJob, cancel): a job whose persisted status is
\* running when the process is started again stays running: no tick takes it
\* up, it is not dispatched or published again, its record does not change
\* and its media directory is not removed, as long as the jobs file can be
\* loaded.
C37_RunningStaysAfterRestart ==
    [][\A j \in JobIds :
          (LeftRunning(j) /\ ~down')
             => /\ LeftRunning(j)'
                /\ jobs'[j] = jobs[j]
                /\ dispatched'[j] = dispatched[j]
                /\ published'[j] = published[j]
                /\ j \in media => j \in media']_vars

\* After the process died during a job's dispatch, the job is left running
\* with its media directory, due, while a later tick has run and a cancel
\* call for it has been refused.
C37_Witness ==
    \E j \in JobIds, c \in CancelIds :
        /\ LeftRunning(j)
        /\ j \in flushedRun /\ published[j] = 1
        /\ j \in media
        /\ jobs[j].runAt <= now
        /\ cancel[c].pc = "ret" /\ cancel[c].job = j /\ cancel[c].result = "409"
        /\ \A t \in TickIds : tick[t].pc = "idle"

\* Cancel call c returns success in this step.
Succeeds(c) == cancel[c].result # "ok" /\ cancel'[c].result = "ok"

\* C38 (cancel, JobStore.get, JobStore.update): for every job at most one
\* cancel call returns success, also with several calls in flight at once;
\* a cancel call that returns when another has succeeded for the job returns
\* Conflict.
C38_OneCancelSucceeds ==
    [][\A c \in CancelCalls :
          Succeeds(c) => cancel[c].job \notin cancelOk]_vars

\* C38, the part that holds: a cancel call made after another has returned
\* success for the job, or after the job's cancelled update was applied,
\* does not return success; on a job that is still there it returns Conflict.
C38_LateCancelRefused ==
    /\ [](\A c \in CancelCalls :
             (cancel[c].late /\ cancel[c].pc = "ret")
                => /\ cancel[c].result = "409"
                   /\ cancel[c].named = "cancelled")
    /\ [][\A c \in CancelCalls, d \in CancelCalls :
             (/\ c # d /\ cancel[d].pc = "idle" /\ cancel'[d].pc # "idle"
              /\ cancel'[d].job = cancel[c].job
              /\ cancel[c].job \in DOMAIN jobs
              /\ cancel[c].pc \in {"upd", "rm"}
              /\ jobs[cancel[c].job].status = "cancelled")
                => cancel'[d].result = "409"]_vars

\* A second cancel call was refused with Conflict while the first one, whose
\* update is applied, has not returned.
C38_RefusedWitness ==
    \E c \in CancelCalls, d \in CancelCalls :
        /\ cancel[c].pc = "rm"
        /\ cancel[d].pc = "ret" /\ cancel[d].job = cancel[c].job
        /\ cancel[d].result = "409"

\* C39 (schedule, processJob, cancel): every job's attemptCount is 0 or 1, and
\* it is 0 exactly when the job's status is scheduled or cancelled.
C39_AttemptCount ==
    \A j \in DOMAIN jobs :
        /\ jobs[j].attemptCount \in {0, 1}
        /\ jobs[j].attemptCount = 0 <=> jobs[j].status \in {"scheduled", "cancelled"}

\* C39, the part that holds: attemptCount is 0 or 1; it is 0 for every
\* scheduled job and 1 for every running, succeeded, partial and failed one.
C39_AttemptCountButCancelled ==
    \A j \in DOMAIN jobs :
        /\ jobs[j].attemptCount \in {0, 1}
        /\ jobs[j].status = "scheduled" => jobs[j].attemptCount = 0
        /\ jobs[j].status \in {"running", "succeeded", "partial", "failed"}
              => jobs[j].attemptCount = 1

\* A job is cancelled with attemptCount 1 while its Publishers are running.
C39_CancelledAfterAttempt ==
    \E j \in DOMAIN jobs, t \in TickIds :
        /\ jobs[j].status = "cancelled" /\ jobs[j].attemptCount = 1
        /\ tick[t].pc = "publish" /\ Head(tick[t].batch) = j

\* The writeFile of the store call at the head of the lock fails in this step.
WriteFails ==
    \/ StoreWriteSched(FALSE)
    \/ StoreWriteCancel(FALSE)
    \/ \E valid \in BOOLEAN : StoreWriteTick(FALSE, TRUE, valid)

\* C40 (withLock, create, update, flush): when the file write of a create or
\* update call fails, nothing is written, the call rejects (cancel answers
\* 500, processJob throws into tick's catch or, from the final update, into
\* its own catch block), the call leaves the writer queue and the next
\* writer in it runs its mutation and starts its flush; the map keeps the
\* mutation whose write failed, which the file does not hold.  A write that
\* succeeds puts the map as it was serialised, the kept mutation included,
\* into the file.
C40_FailedWriteReleasesQueue ==
    /\ [][WriteFails =>
            LET r == Head(lock)
            IN  /\ file' = file
                /\ r.job \in DOMAIN jobs /\ jobs[r.job] \in r.ret
                /\ r.job \in DOMAIN jobs'
                /\ r.job \notin DOMAIN Loaded(file')
                      \/ Loaded(file')[r.job] # jobs[r.job]
                /\ Len(lock) > 1
                      => /\ lock'[1].owner = lock[2].owner
                         /\ lock'[1].op = lock[2].op
                         /\ lock'[1].snap = {jobs'}
                         /\ jobs' = Apply(jobs, lock[2])
                /\ Len(lock) = 1
                      => \/ lock' = <<>> /\ jobs' = jobs
                         \/ /\ Len(lock') = 1
                            /\ lock'[1].owner = r.owner /\ lock'[1].op = "failed"
                            /\ r.op = "final"
                /\ r.owner[1] = "cancel"
                      => /\ cancel'[r.owner[2]].pc = "ret"
                         /\ cancel'[r.owner[2]].result = "500"
                /\ r.owner[1] = "tick"
                      => tick'[r.owner[2]].pc = IF r.op = "final" THEN "updF" ELSE "idle"
                /\ r.owner[1] = "sched" => sched'[r.job] = "done"]_vars
    /\ [][(file' # file /\ file'.state = "ok" /\ lock # <<>>)
             => /\ {Loaded(file')} = Head(lock).snap
                /\ lock' = <<>> => Loaded(file') = jobs']_vars

\* A create's write failed and a later update's write is in flight: the map
\* holds a job the file does not, and the writer queue is in use again.
C40_Witness ==
    \E j \in DOMAIN jobs :
        /\ ~down
        /\ j \notin DOMAIN Loaded(file)
        /\ sched[j] = "done"
        /\ lock # <<>>
        /\ Head(lock).job = j
        /\ Head(lock).op # "create"

\* After a failed write a later flush succeeded: the file holds the job
\* whose create failed and equals the map.
C40_CaughtUp ==
    /\ faults = 1 /\ ~down /\ lock = <<>>
    /\ jobs # <<>> /\ Loaded(file) = jobs
    /\ \E j \in DOMAIN jobs : jobs[j].status = "failed" /\ jobs[j].lastError = {"write"}

====
